---- MODULE Spec2Model ----
(***************************************************************************)
(* A model of rye-devtools' download finder                                *)
(* (rye-devtools/src/rye_devtools/find_downloads.py): triple parsing,      *)
(* best-download selection, the rate-limit aware fetch, the paginated      *)
(* release walk and the batched checksum fetch.                            *)
(*                                                                         *)
(* Text is modelled as a sequence of atoms (a "string" is a tuple of       *)
(* indivisible fragments such as "x86", "_64", "-", "pgo", "+"), so that    *)
(* str.split("-") and the substring test `flavor in triple` are computed   *)
(* rather than assumed.  Python's None is the string "None" for optional   *)
(* strings, -1 for optional integers and a record of "None" fields for     *)
(* optional records.                                                       *)
(***************************************************************************)
EXTENDS Integers, Sequences, FiniteSets, TLC

None == "None"
\* None where the value, when present, is a non-negative integer.
NoInt == -1

(* ---------------------------------------------------------------------- *)
(* Bounds of the model                                                     *)
(* ---------------------------------------------------------------------- *)
\* Longest generated triple text, in dash-separated pieces.
MaxPieces == 3
\* Longest PyPy versions feed, and most files per version.
MaxPyVersions == 1
MaxPyFiles == 2
\* Most GET requests one call of fetch may issue, and the latest time of a call.
MaxAttempts == 3
MaxStart == 2
\* Longest candidate list handed to pick_best_download on its own.
MaxCandidates == 3
\* Largest pages argument of fetch_indygreg_downloads.
MaxPagesArg == 4
\* Most rate-limited responses answered during one walk of the pages.
MaxPageRetries == 1
\* Largest n argument of fetch_indygreg_checksums, and most rate-limited
\* responses answered during one call of it.
MaxN == 2
MaxTaskRetries == 1

(* ---------------------------------------------------------------------- *)
(* Text helpers                                                            *)
(* ---------------------------------------------------------------------- *)
Dash == "-"

\* The atoms spelling a named token.
Lex(k) ==
    CASE k = "x86_64"       -> <<"x86", "_64">>
      [] k = "x86_64_v3"    -> <<"x86", "_64", "_v3">>
      [] k = "shared-pgo"   -> <<"shared", Dash, "pgo">>
      [] k = "shared-noopt" -> <<"shared", Dash, "noopt">>
      [] k = "pgo+lto"      -> <<"pgo", "+", "lto">>
      [] OTHER              -> <<k>>

RECURSIVE Join(_)
\* "-".join(pieces), each piece given as its atoms.
Join(pieces) ==
    IF Len(pieces) = 0 THEN <<>>
    ELSE IF Len(pieces) = 1 THEN pieces[1]
    ELSE pieces[1] \o <<Dash>> \o Join(Tail(pieces))

\* The text of a dash-separated list of named tokens.
Txt(names) == Join([i \in 1..Len(names) |-> Lex(names[i])])

RECURSIVE SplitFrom(_, _, _)
SplitFrom(s, i, cur) ==
    IF i > Len(s) THEN <<cur>>
    ELSE IF s[i] = Dash THEN <<cur>> \o SplitFrom(s, i + 1, <<>>)
    ELSE SplitFrom(s, i + 1, Append(cur, s[i]))

\* str.split("-")
Split(s) == SplitFrom(s, 1, <<>>)

\* The concatenation of a list of lists.
RECURSIVE Concat(_)
Concat(seqs) == IF seqs = <<>> THEN <<>> ELSE Head(seqs) \o Concat(Tail(seqs))

\* Python's `needle in hay` on strings.
Contains(hay, needle) ==
    \E i \in 1..(Len(hay) - Len(needle) + 1) :
        SubSeq(hay, i, i + Len(needle) - 1) = needle

(* ---------------------------------------------------------------------- *)
(* Mapping tables of CPythonFinder                                         *)
(* ---------------------------------------------------------------------- *)
FLAVOR_PREFERENCES ==
    <<"shared-pgo", "shared-noopt", "shared-noopt", "pgo+lto", "pgo", "lto">>

HIDDEN_FLAVORS == <<"debug", "noopt", "install_only">>

\* key text -> value text
SPECIAL_TRIPLES ==
    << <<Txt(<<"macos">>), Txt(<<"x86_64", "apple", "darwin">>)>>,
       <<Txt(<<"linux64">>), Txt(<<"x86_64", "unknown", "linux", "gnu">>)>>,
       <<Txt(<<"windows", "amd64">>), Txt(<<"x86_64", "pc", "windows", "msvc">>)>>,
       <<Txt(<<"windows", "x86", "shared-pgo">>),
         Txt(<<"i686", "pc", "windows", "msvc", "shared-pgo">>)>>,
       <<Txt(<<"windows", "amd64", "shared-pgo">>),
         Txt(<<"x86_64", "pc", "windows", "msvc", "shared-pgo">>)>>,
       <<Txt(<<"windows", "x86">>), Txt(<<"i686", "pc", "windows", "msvc">>)>>,
       <<Txt(<<"linux64", "musl">>), Txt(<<"x86_64", "unknown", "linux", "musl">>)>> >>

ARCH_MAPPING ==
    ("x86_64" :> "x86_64") @@ ("x86" :> "x86") @@ ("i686" :> "x86")
        @@ ("aarch64" :> "aarch64")

PLATFORM_MAPPING ==
    ("darwin" :> "macos") @@ ("windows" :> "windows") @@ ("linux" :> "linux")

ENV_MAPPING == ("gnu" :> "gnu")

(* ---------------------------------------------------------------------- *)
(* PlatformTriple and CPythonFinder.parse_triple                           *)
(* ---------------------------------------------------------------------- *)
PlatformTriple(arch, platform, environment, flavor) ==
    [arch |-> arch, platform |-> platform, environment |-> environment,
     flavor |-> flavor]

\* parse_triple's "return" with no value.
NoTriple == PlatformTriple(None, None, None, None)

\* SPECIAL_TRIPLES.get(triple, triple)
SpecialGet(triple) ==
    IF \E i \in 1..Len(SPECIAL_TRIPLES) : SPECIAL_TRIPLES[i][1] = triple
    THEN SPECIAL_TRIPLES[CHOOSE i \in 1..Len(SPECIAL_TRIPLES) :
                             SPECIAL_TRIPLES[i][1] = triple][2]
    ELSE triple

\* A match_flavor that tries the hidden flavors first.
match_flavor_hidden_first(triple) ==
    LET all == HIDDEN_FLAVORS \o FLAVOR_PREFERENCES
        hits == {i \in 1..Len(all) : Contains(triple, Lex(all[i]))}
    IN  IF hits = {} THEN None
        ELSE all[CHOOSE i \in hits : \A j \in hits : i <= j]

\* match_flavor: the first tag of FLAVOR_PREFERENCES + HIDDEN_FLAVORS that
\* occurs in the text.
match_flavor(triple) ==
    LET all == FLAVOR_PREFERENCES \o HIDDEN_FLAVORS
        hits == {i \in 1..Len(all) : Contains(triple, Lex(all[i]))}
    IN  IF hits = {} THEN None
        ELSE all[CHOOSE i \in hits : \A j \in hits : i <= j]

\* `pieces[i] in mapping`
InMapping(piece, mapping) == \E k \in DOMAIN mapping : Lex(k) = piece

MappingAt(piece, mapping) ==
    mapping[CHOOSE k \in DOMAIN mapping : Lex(k) = piece]

\* A match_mapping that hands all the pieces on to the next match.
match_mapping_keep_pieces(pieces, mapping) ==
    LET hits == {i \in 1..Len(pieces) : InMapping(pieces[i], mapping)}
    IN  IF hits = {} THEN <<None, pieces>>
        ELSE LET i == CHOOSE h \in hits : \A j \in hits : j <= h
             IN  <<MappingAt(pieces[i], mapping), pieces>>

\* match_mapping: the value of the last piece found in the mapping, and the
\* pieces before it.
match_mapping(pieces, mapping) ==
    LET hits == {i \in 1..Len(pieces) : InMapping(pieces[i], mapping)}
    IN  IF hits = {} THEN <<None, pieces>>
        ELSE LET i == CHOOSE h \in hits : \A j \in hits : j <= h
             IN  <<MappingAt(pieces[i], mapping), SubSeq(pieces, 1, i - 1)>>

\* A parse_triple that forgets the check of lines 273-274.
parse_triple_no_env_check(triple) ==
    LET t == SpecialGet(triple)
        flavor == match_flavor(t)
        e == match_mapping(Split(t), ENV_MAPPING)
        p == match_mapping(e[2], PLATFORM_MAPPING)
        a == match_mapping(p[2], ARCH_MAPPING)
    IN  IF a[1] = None \/ p[1] = None THEN NoTriple
        ELSE PlatformTriple(a[1], p[1], e[1], flavor)

parse_triple(triple) ==
    LET t == SpecialGet(triple)
        flavor == match_flavor(t)
        e == match_mapping(Split(t), ENV_MAPPING)
        p == match_mapping(e[2], PLATFORM_MAPPING)
        a == match_mapping(p[2], ARCH_MAPPING)
    IN  IF a[1] = None \/ p[1] = None THEN NoTriple
        ELSE IF e[1] = None /\ p[1] = "linux" THEN NoTriple
        ELSE PlatformTriple(a[1], p[1], e[1], flavor)

(* ---------------------------------------------------------------------- *)
(* PythonVersion, PythonDownload                                           *)
(* ---------------------------------------------------------------------- *)
PythonVersion(major, minor, patch) == <<major, minor, patch>>

\* Tuple comparison a < b of two versions.
VersionLess(a, b) ==
    \/ a[1] < b[1]
    \/ a[1] = b[1] /\ a[2] < b[2]
    \/ a[1] = b[1] /\ a[2] = b[2] /\ a[3] < b[3]

\* An asset's file name, by the parts FILENAME_RE tells apart: the prefix
\* before the version, the version, the triple text, the trailing -[\dT]+
\* stamp (NoInt when there is none) and the extension.
Filename(prefix, ver, triple, stamp, ext) ==
    [prefix |-> prefix, ver |-> ver, triple |-> triple, stamp |-> stamp,
     ext |-> ext]

\* A download url: the release directory and, after the last "/", the name.
Url(release, filename) == [release |-> release, filename |-> filename]

NoFilename == Filename(None, <<0, 0, 0>>, <<>>, NoInt, None)
NoUrl == Url(None, NoFilename)

PythonDownload(version, triple, implementation, filename, url) ==
    [version |-> version, triple |-> triple, implementation |-> implementation,
     filename |-> filename, url |-> url, sha256 |-> None]

NoDownload == PythonDownload(<<0, 0, 0>>, NoTriple, None, NoFilename, NoUrl)

(* ---------------------------------------------------------------------- *)
(* CPythonFinder.pick_best_download                                        *)
(* ---------------------------------------------------------------------- *)
\* list.index(x), 0-based, or -1 where Python raises ValueError.
Index(list, x) ==
    IF \E i \in 1..Len(list) : list[i] = x
    THEN (CHOOSE i \in 1..Len(list) :
              list[i] = x /\ \A j \in 1..(i - 1) : list[j] # x) - 1
    ELSE -1

\* A preference that keeps the -1 of a failed lookup as the rank.
preference_find(download) == Index(FLAVOR_PREFERENCES, download.triple.flavor)

\* preference (lines 284-288)
preference(download) ==
    IF Index(FLAVOR_PREFERENCES, download.triple.flavor) >= 0
    THEN Index(FLAVOR_PREFERENCES, download.triple.flavor)
    ELSE Len(FLAVOR_PREFERENCES) + 1

\* An insertion that puts x before the elements of equal key.
RECURSIVE InsertSortedBeforeEqual(_, _)
InsertSortedBeforeEqual(sorted, x) ==
    IF sorted = <<>> THEN <<x>>
    ELSE IF preference(Head(sorted)) < preference(x)
         THEN <<Head(sorted)>> \o InsertSortedBeforeEqual(Tail(sorted), x)
         ELSE <<x>> \o sorted

\* Insert x into the key-sorted list after every element whose key is not
\* greater: the stable order.
RECURSIVE InsertSorted(_, _)
InsertSorted(sorted, x) ==
    IF sorted = <<>> THEN <<x>>
    ELSE IF preference(Head(sorted)) <= preference(x)
         THEN <<Head(sorted)>> \o InsertSorted(Tail(sorted), x)
         ELSE <<x>> \o sorted

\* downloads.sort(key=preference): list.sort is stable.
RECURSIVE SortByPreference(_)
SortByPreference(downloads) ==
    IF downloads = <<>> THEN <<>>
    ELSE InsertSorted(SortByPreference(SubSeq(downloads, 1, Len(downloads) - 1)),
                      downloads[Len(downloads)])

pick_best_download(downloads) ==
    IF downloads = <<>> THEN NoDownload
    ELSE SortByPreference(downloads)[1]

(* ---------------------------------------------------------------------- *)
(* PyPyFinder.fetch_downloads, after the feed has been fetched              *)
(* ---------------------------------------------------------------------- *)
PYPY_ARCH_MAPPING ==
    ("x64" :> "x86_64") @@ ("i686" :> "x86") @@ ("aarch64" :> "aarch64")
        @@ ("arm64" :> "aarch64")

PYPY_PLATFORM_MAPPING ==
    ("darwin" :> "macos") @@ ("win64" :> "windows") @@ ("linux" :> "linux")

\* dict.get(key) with no default
Get(mapping, key) == IF key \in DOMAIN mapping THEN mapping[key] ELSE None

\* The PythonDownload built for one file of a version (lines 382-398), or
\* <<>> when the file is skipped.
PyPyFileDownloads(python_version, file) ==
    LET arch == Get(PYPY_ARCH_MAPPING, file.arch)
        platform == Get(PYPY_PLATFORM_MAPPING, file.platform)
        environment == IF platform = "linux" THEN "gnu" ELSE None
    IN  IF arch = None \/ platform = None THEN <<>>
        ELSE << PythonDownload(python_version,
                               PlatformTriple(arch, platform, environment, None),
                               "pypy", file.filename, file.download_url) >>

RECURSIVE PyPyFilesDownloads(_, _)
PyPyFilesDownloads(python_version, files) ==
    IF files = <<>> THEN <<>>
    ELSE PyPyFileDownloads(python_version, Head(files))
             \o PyPyFilesDownloads(python_version, Tail(files))

\* All candidate downloads of the feed, in feed order.
RECURSIVE PyPyCandidates(_)
PyPyCandidates(versions) ==
    IF versions = <<>> THEN <<>>
    ELSE LET version == Head(versions)
         IN  (IF ~version.stable THEN <<>>
              ELSE IF VersionLess(version.python_version, <<3, 7, 0>>) THEN <<>>
              ELSE PyPyFilesDownloads(version.python_version, version.files))
             \o PyPyCandidates(Tail(versions))

PyPyKey(d) == <<d.version, d.triple.arch, d.triple.platform>>

\* results[(python_version, arch, platform)] keeps the first download of its
\* key; list(results.values()) is in insertion order.
PyPy_fetch_downloads(versions) ==
    LET c == PyPyCandidates(versions)
        first(i) == \A j \in 1..(i - 1) : PyPyKey(c[j]) # PyPyKey(c[i])
        kept == SelectSeq([i \in 1..Len(c) |-> [d |-> c[i], keep |-> first(i)]],
                          LAMBDA x : x.keep)
    IN  [i \in 1..Len(kept) |-> kept[i].d]

(* ---------------------------------------------------------------------- *)
(* fetch: the rate-limit aware GET                                         *)
(* ---------------------------------------------------------------------- *)
Response(status, remaining, retry_after, reset, body) ==
    [status |-> status, remaining |-> remaining, retry_after |-> retry_after,
     reset |-> reset, body |-> body]

NoResponse == Response(0, None, NoInt, NoInt, <<>>)

Max(a, b) == IF a >= b THEN a ELSE b

\* The condition of lines 77-80.
IsRateLimited(resp) == resp.status \in {403, 429} /\ resp.remaining = "0"

\* A wait that trusts x-ratelimit-reset to lie in the future.
WaitForUnclamped(resp, now) ==
    IF resp.retry_after # NoInt THEN resp.retry_after
    ELSE IF resp.reset # NoInt THEN resp.reset - now
    ELSE 60 * 2

\* The argument of time.sleep for a rate-limited response received at `now`.
WaitFor(resp, now) ==
    IF resp.retry_after # NoInt THEN resp.retry_after
    ELSE IF resp.reset # NoInt THEN Max(resp.reset - now, 0)
    ELSE 60 * 2

\* A sleep that returns at once.
NoSleep(now, seconds) == now

\* time.sleep(seconds): the time at which the (blocked) thread goes on.
Sleep(now, seconds) == now + seconds

\* A raise_for_status that lets every status through.
raise_for_status_never(resp) == FALSE

\* resp.raise_for_status() raises HTTPStatusError (client and server errors).
raise_for_status(resp) == resp.status >= 400

\* What fetch does with a response: "retry", "raise" or "return".
FetchOutcome(resp) ==
    IF IsRateLimited(resp) THEN "retry"
    ELSE IF raise_for_status(resp) THEN "raise"
    ELSE "return"

\* The deepest nesting of calls the interpreter allows before it raises
\* RecursionError (sys.getrecursionlimit(), which nothing in the program
\* changes). Every retry of fetch is a recursive call awaited by the call
\* before it (lines 86, 95, 99), so each attempt holds one more frame.
RecursionLimit == 1000

\* The recursive call repeats the request: the state after the sleep.
FetchRetryStep(url, now, requests, responses, resp) ==
    LET wait == WaitFor(resp, now)
        woken == Sleep(now, wait)
    IN  [clock |-> woken,
         reqs |-> Append(requests, [url |-> url, at |-> woken]),
         resps |-> Append(responses, [resp |-> resp, at |-> now, wait |-> wait])]

(* ---------------------------------------------------------------------- *)
(* CPythonFinder.parse_download_url and the grouping                       *)
(* ---------------------------------------------------------------------- *)
RELEASE_URL == "https://api.github.com/repos/indygreg/python-build-standalone/releases"

\* "%s?page=%d" % (RELEASE_URL, page)
PageUrl(n) == <<RELEASE_URL, "?page=", n>>

\* release_url + "/SHA256SUMS"
ChecksumUrl(release) == <<release, "/SHA256SUMS">>

\* FILENAME_RE matches: cpython-<ver>[+build]-<triple>[-stamp].tar.(gz|zst)
MatchesFilenameRe(filename) ==
    filename.prefix = "cpython" /\ filename.ext \in {".tar.gz", ".tar.zst"}

\* A parse_download_url that keeps a download whose triple did not parse.
parse_download_url_keep_invalid(url) ==
    LET filename == url.filename
    IN  IF filename.ext = ".tar.zst.sha256" THEN NoDownload
        ELSE IF ~MatchesFilenameRe(filename) THEN NoDownload
        ELSE PythonDownload(filename.ver, parse_triple(filename.triple),
                            "cpython", filename, url)

parse_download_url(url) ==
    LET filename == url.filename
        triple == parse_triple(filename.triple)
    IN  IF filename.ext = ".tar.zst.sha256" THEN NoDownload
        ELSE IF ~MatchesFilenameRe(filename) THEN NoDownload
        ELSE IF triple = NoTriple THEN NoDownload
        ELSE PythonDownload(filename.ver, triple, "cpython", filename, url)

\* A grouping key that tells the flavors apart.
GroupKeyWithFlavor(download) ==
    <<download.triple.arch, download.triple.platform, download.triple.flavor>>

\* The key of the inner dict (lines 202-204).
GroupKey(download) == <<download.triple.arch, download.triple.platform>>

\* The place of the version in the outer dict, 0 when it is no key of it.
VersionPosition(res, version) ==
    IF \E i \in 1..Len(res) : res[i].version = version
    THEN CHOOSE i \in 1..Len(res) : res[i].version = version
    ELSE 0

\* The place of the key in a version's dict, 0 when it is no key of it.
KeyPosition(groups, key) ==
    IF \E i \in 1..Len(groups) : groups[i].key = key
    THEN CHOOSE i \in 1..Len(groups) : groups[i].key = key
    ELSE 0

\* results.setdefault(version, {}).setdefault(key, []).append(download)
AddDownload(res, download) ==
    LET vi == VersionPosition(res, download.version)
        withVersion ==
            IF vi = 0
            THEN Append(res, [version |-> download.version,
                              platform_downloads |-> <<>>])
            ELSE res
        v == IF vi = 0 THEN Len(withVersion) ELSE vi
        groups == withVersion[v].platform_downloads
        gi == KeyPosition(groups, GroupKey(download))
        withGroup ==
            IF gi = 0
            THEN Append(groups, [key |-> GroupKey(download), flavors |-> <<>>])
            ELSE groups
        g == IF gi = 0 THEN Len(withGroup) ELSE gi
    IN  [withVersion EXCEPT ![v].platform_downloads =
            [withGroup EXCEPT ![g].flavors = Append(@, download)]]

\* An end-of-feed test that also stops at a page without a valid asset.
EndOfFeedNoDownload(rows) ==
    \A r \in 1..Len(rows) : \A a \in 1..Len(rows[r].assets) :
        parse_download_url(rows[r].assets[a].browser_download_url) = NoDownload

\* `not rows` (line 191): the body decoded to the empty list.
EndOfFeed(rows) == rows = <<>>

\* Lines 194-206 for the assets of one row.
RECURSIVE AddAssets(_, _)
AddAssets(res, assets) ==
    IF assets = <<>> THEN res
    ELSE LET download == parse_download_url(Head(assets).browser_download_url)
         IN  AddAssets(IF download # NoDownload THEN AddDownload(res, download)
                       ELSE res,
                       Tail(assets))

\* Lines 193-206 for the rows of one page.
RECURSIVE AddRows(_, _)
AddRows(res, rows) ==
    IF rows = <<>> THEN res
    ELSE AddRows(AddAssets(res, Head(rows).assets), Tail(rows))

\* Lines 210-213 for the groups of one version.
RECURSIVE BestOfGroups(_)
BestOfGroups(groups) ==
    IF groups = <<>> THEN <<>>
    ELSE LET b == pick_best_download(Head(groups).flavors)
         IN  (IF b # NoDownload THEN <<b>> ELSE <<>>)
                 \o BestOfGroups(Tail(groups))

\* Lines 208-214: the downloads list built from the grouping.
RECURSIVE BestDownloads(_)
BestDownloads(res) ==
    IF res = <<>> THEN <<>>
    ELSE BestOfGroups(Head(res).platform_downloads) \o BestDownloads(Tail(res))

(* ---------------------------------------------------------------------- *)
(* batched and CPythonFinder.fetch_indygreg_checksums                      *)
(* ---------------------------------------------------------------------- *)
Min(a, b) == IF a <= b THEN a ELSE b

\* A batched that puts everything in one batch.
BatchedAtOnce(seq, n) == IF seq = <<>> THEN <<>> ELSE <<seq>>

\* A batched that yields full tuples only.
RECURSIVE BatchedFullOnly(_, _)
BatchedFullOnly(seq, n) ==
    IF Len(seq) < n THEN <<>>
    ELSE <<SubSeq(seq, 1, n)>> \o BatchedFullOnly(SubSeq(seq, n + 1, Len(seq)), n)

\* list(batched(seq, n)) for n >= 1: tuples of n items, the last one shorter.
RECURSIVE Batched(_, _)
Batched(seq, n) ==
    IF seq = <<>> THEN <<>>
    ELSE <<SubSeq(seq, 1, Min(n, Len(seq)))>>
             \o Batched(SubSeq(seq, Min(n, Len(seq)) + 1, Len(seq)), n)

\* download.url.rsplit("/", maxsplit=1)[0] + "/SHA256SUMS"
ChecksumUrlOf(download) == ChecksumUrl(download.url.release)

\* The set checksums_url (lines 297-301).
ChecksumUrls(dls) == {ChecksumUrlOf(dls[i]) : i \in 1..Len(dls)}

\* The orders in which a set may be iterated.
Orders(S) ==
    {f \in [1..Cardinality(S) -> S] :
        \A i, j \in 1..Cardinality(S) : f[i] = f[j] => i = j}

Task(url, batch) ==
    [url |-> url, batch |-> batch, state |-> "awaiting", resp |-> NoResponse,
     ended |-> 0]

\* Lines 317-319 for one batch: the tasks created, each run up to the await
\* of its GET.
TasksOf(batch, number) == [i \in 1..Len(batch) |-> Task(batch[i], number)]

Finished(task) == task.state \in {"done", "notfound", "failed", "cancelled"}

\* A TaskGroup that is left as soon as one of its tasks has finished.
BatchAnyFinished(tsks, number) ==
    \E i \in 1..Len(tsks) : tsks[i].batch = number /\ Finished(tsks[i])

\* The TaskGroup of the batch can be left: all its tasks have finished.
BatchFinished(tsks, number) ==
    \A i \in 1..Len(tsks) : tsks[i].batch = number => Finished(tsks[i])

\* A task of the open TaskGroup has raised: the group is aborting.
Aborting(tsks) == \E i \in 1..Len(tsks) : tsks[i].state = "failed"

\* The place of a task that finishes now in the order of completion.
NextEnded(tsks) == Cardinality({i \in 1..Len(tsks) : Finished(tsks[i])}) + 1

\* A wait that yields to the event loop, as asyncio.sleep would.
BlockedNever(tsks) == FALSE

\* A task is inside time.sleep (lines 84, 93, 98): the call blocks the one
\* thread of the event loop, so no coroutine runs until it returns.
Blocked(tsks) == \E i \in 1..Len(tsks) : tsks[i].state = "sleeping"

\* `e.response.status_code != 404` (line 307), negated.
IsNotFound(resp) == resp.status = 404

\* Manifest lines gathered in the order the fetches completed.
ManifestLinesAsCompleted(tsks) ==
    LET ended(k) == CHOOSE i \in 1..Len(tsks) : tsks[i].ended = k
        count == Cardinality({i \in 1..Len(tsks) : tsks[i].ended > 0})
    IN  Concat([k \in 1..count |->
                   IF tsks[ended(k)].state = "done"
                   THEN tsks[ended(k)].resp.body ELSE <<>>])

\* The (checksum, filename) lines of the manifests, in tasks order (lines
\* 323-331).
RECURSIVE ManifestLines(_)
ManifestLines(tsks) ==
    IF tsks = <<>> THEN <<>>
    ELSE (IF Head(tsks).state = "done" THEN Head(tsks).resp.body ELSE <<>>)
             \o ManifestLines(Tail(tsks))

\* checksums.get(filename), the dict filled line by line.
ChecksumOf(lines, filename) ==
    LET hits == {i \in 1..Len(lines) : lines[i][2] = filename}
    IN  IF hits = {} THEN None
        ELSE lines[CHOOSE i \in hits : \A j \in hits : j <= i][1]

\* An enrichment that keeps only the downloads it found a checksum for.
WithChecksumsListedOnly(dls, lines) ==
    SelectSeq([i \in 1..Len(dls) |->
                  [dls[i] EXCEPT !.sha256 = ChecksumOf(lines, dls[i].filename)]],
              LAMBDA d : d.sha256 # None)

\* Lines 333-334.
WithChecksums(dls, lines) ==
    [i \in 1..Len(dls) |->
        [dls[i] EXCEPT !.sha256 = ChecksumOf(lines, dls[i].filename)]]

(* ---------------------------------------------------------------------- *)
(* render and the finders' results                                         *)
(* ---------------------------------------------------------------------- *)
\* PythonVersion.__neg__ with the sign left as it is.
NegKeepsSign(version) == version

\* PythonVersion.__neg__ (lines 55-56)
Neg(version) == <<-version[1], -version[2], -version[3]>>

\* The place of a name among the architecture and platform names in
\* Python's string order.
StrRank(name) ==
    CASE name = "aarch64" -> 1
      [] name = "linux"   -> 2
      [] name = "macos"   -> 3
      [] name = "windows" -> 4
      [] name = "x86"     -> 5
      [] name = "x86_64"  -> 6

\* a < b on two strings.
StrLess(a, b) == StrRank(a) < StrRank(b)

\* a < b on two PlatformTriples whose (arch, platform) differ: the tuple
\* comparison is decided before it reaches environment and flavor.
TripleLess(a, b) ==
    \/ StrLess(a.arch, b.arch)
    \/ a.arch = b.arch /\ StrLess(a.platform, b.platform)

\* impl_order.index(download.implementation)
ImplIndex(download) == Index(<<"pypy", "cpython">>, download.implementation)

\* sort_key(a) < sort_key(b) (lines 421-428)
KeyLess(a, b) ==
    \/ ImplIndex(a) < ImplIndex(b)
    \/ /\ ImplIndex(a) = ImplIndex(b)
       /\ VersionLess(Neg(a.version), Neg(b.version))
    \/ /\ ImplIndex(a) = ImplIndex(b)
       /\ a.version = b.version
       /\ TripleLess(a.triple, b.triple)

\* Insert x before the first element whose key is greater.
RECURSIVE InsertByKey(_, _)
InsertByKey(sorted, x) ==
    IF sorted = <<>> THEN <<x>>
    ELSE IF KeyLess(x, Head(sorted)) THEN <<x>> \o sorted
    ELSE <<Head(sorted)>> \o InsertByKey(Tail(sorted), x)

\* downloads.sort(key=sort_key) (line 430)
RECURSIVE SortByKey(_)
SortByKey(dls) ==
    IF dls = <<>> THEN <<>>
    ELSE InsertByKey(SortByKey(SubSeq(dls, 1, Len(dls) - 1)), dls[Len(dls)])

\* The entry render prints for a download (lines 439-445).
Entry(download) ==
    [name |-> download.implementation, arch |-> download.triple.arch,
     os |-> download.triple.platform, major |-> download.version[1],
     minor |-> download.version[2], patch |-> download.version[3],
     url |-> download.url, sha256 |-> download.sha256]

\* The entries render prints, in order.
Render(dls) == [i \in 1..Len(dls) |-> Entry(SortByKey(dls)[i])]

\* CHECKSUM_RE (lines 344-346): the lines that name a pypy file.
PyPyChecksumLines(text) == SelectSeq(text, LAMBDA ln : ln[2].prefix = "pypy")

\* A handler that takes every 404 for "nothing there".
PropagatesUnlessNotFound(stage, resp) ==
    raise_for_status(resp) /\ ~IsNotFound(resp)

\* The HTTPStatusError of the response leaves the finder: only
\* fetch_checksums of the CPython finder catches one, for status 404.
Propagates(stage, resp) ==
    raise_for_status(resp) /\ ~(stage = "cpython_checksums" /\ IsNotFound(resp))

(* ---------------------------------------------------------------------- *)
(* State                                                                   *)
(* ---------------------------------------------------------------------- *)
VARIABLES
    \* triple construction
    tpc,          \* "cpython" | "pypy": input pending; "parsed": done
    traw,         \* the text handed to CPythonFinder.parse_triple
    triple,       \* what parse_triple returned
    pversions,    \* the decoded PyPy versions feed
    pdownloads    \* what PyPyFinder.fetch_downloads returned

VARIABLES
    \* one call of fetch(client, url)
    fpc,          \* "idle" | "awaiting" (a GET is in flight) | "returned" | "raised"
                  \*   | "overflowed" (the recursive call raised RecursionError)
    furl,         \* the url argument
    clock,        \* the time, in seconds
    reqs,         \* the GET requests issued so far: [url, at]
    resps,        \* the responses received so far: [resp, at, wait], wait the
                  \* argument of time.sleep (NoInt when fetch did not sleep)
    fresult       \* the response fetch returned, or the one it raised for

VARIABLES
    \* one call of pick_best_download
    ppc,          \* "idle" | "called" | "picked"
    candidates,   \* the downloads argument, as the caller passed it
    best          \* what pick_best_download returned

tvars == <<tpc, traw, triple, pversions, pdownloads>>
fvars == <<fpc, furl, clock, reqs, resps, fresult>>
VARIABLES
    \* one call of CPythonFinder.fetch_indygreg_downloads(pages)
    cpc,          \* "idle" | "awaiting" (a page is being fetched) | "done" | "failed"
    pages,        \* the pages argument
    page,         \* the loop variable
    results,      \* the grouping: <<[version, platform_downloads:
                  \*   <<[key, flavors]>>]>>, both levels in insertion order
    downloads,    \* the list returned
    requested,    \* the pages fetch was called for, in call order
    gets,         \* the number of GET requests issued for release pages
    served        \* the decoded bodies fetch returned, in page order

VARIABLES
    \* one call of CPythonFinder.fetch_indygreg_checksums(downloads, n)
    kpc,          \* "idle" | "batch" (inside a TaskGroup) | "done" | "failed"
    kdownloads,   \* the downloads argument (its sha256 fields are written)
    kn,           \* the n argument
    korder,       \* the set checksums_url as a list, in its iteration order
    kbatches,     \* list(batched(checksums_url, n))
    kbatch,       \* the number of the batch whose TaskGroup is open
    tasks,        \* the tasks list, in creation order: [url, batch, state,
                  \*   resp, ended]; state is "awaiting" (its GET is in
                  \*   flight), "sleeping" (inside time.sleep, resp the
                  \*   rate-limited response), "done" (returned resp),
                  \*   "notfound" (returned None), "failed" (raised) or
                  \*   "cancelled"; ended is its place in the order of
                  \*   completion, 0 while it runs
    kretries      \* the number of rate-limited responses answered so far

VARIABLES
    \* one run of async_main
    mpc,          \* "idle" | the stage whose fetch is awaited:
                  \*   "cpython_downloads", "cpython_checksums",
                  \*   "pypy_downloads", "pypy_checksums" | "rendered" |
                  \*   "aborted" (an exception left async_main) | "exit"
    found,        \* the downloads list of the finder at work
    mdownloads,   \* the downloads list of async_main
    mresps,       \* the responses fetch ended with so far: [stage, resp]
    rarg,         \* the list render was called with, as it was passed
    emitted       \* the entries render has printed

pvars == <<ppc, candidates, best>>
mvars == <<mpc, found, mdownloads, mresps, rarg, emitted>>
cvars == <<cpc, pages, page, results, downloads, requested, gets, served>>
kvars == <<kpc, kdownloads, kn, korder, kbatches, kbatch, tasks, kretries>>
vars == <<tvars, fvars, pvars, cvars, kvars, mvars>>

(* ---------------------------------------------------------------------- *)
(* The state of a machine that is not running                              *)
(* ---------------------------------------------------------------------- *)
TIdle ==
    /\ tpc = "parsed" /\ traw = <<>> /\ triple = NoTriple
    /\ pversions = <<>> /\ pdownloads = <<>>

FIdle ==
    /\ fpc = "idle" /\ furl = <<>> /\ clock = 0
    /\ reqs = <<>> /\ resps = <<>> /\ fresult = NoResponse

PIdle == ppc = "idle" /\ candidates = <<>> /\ best = NoDownload

CIdle ==
    /\ cpc = "idle" /\ pages = 0 /\ page = 0 /\ results = <<>>
    /\ downloads = <<>> /\ requested = <<>> /\ gets = 0 /\ served = <<>>

KIdle ==
    /\ kpc = "idle" /\ kdownloads = <<>> /\ kn = 0 /\ korder = <<>>
    /\ kbatches = <<>>
    /\ kbatch = 0 /\ tasks = <<>> /\ kretries = 0

MIdle ==
    /\ mpc = "idle" /\ found = <<>> /\ mdownloads = <<>> /\ mresps = <<>>
    /\ rarg = <<>> /\ emitted = <<>>

(* ---------------------------------------------------------------------- *)
(* Inputs of the triple machine                                            *)
(* ---------------------------------------------------------------------- *)
\* All sequences over S of length 0..n.
SeqUpTo(S, n) == UNION {[1..k -> S] : k \in 0..n}

PieceNames ==
    {"x86_64", "x86_64_v3", "aarch64", "i686", "ppc64le", "unknown", "darwin",
     "linux", "windows", "gnu", "musl", "lto", "pgo", "pgo+lto", "shared",
     "noopt", "debug", "install_only", "full"}

\* The triples of tests/test_basic.py and a few more of the release feed.
KnownTriples ==
    { Txt(<<"aarch64", "apple", "darwin", "lto">>),
      Txt(<<"aarch64", "unknown", "linux", "gnu", "pgo+lto">>),
      Txt(<<"x86_64", "unknown", "linux", "musl", "debug">>),
      Txt(<<"aarch64", "unknown", "linux", "gnu", "debug", "full">>),
      Txt(<<"x86_64", "unknown", "linux", "gnu", "debug">>),
      Txt(<<"ppc64le", "unknown", "linux", "gnu", "noopt", "full">>),
      Txt(<<"x86_64_v3", "unknown", "linux", "gnu", "lto">>),
      Txt(<<"x86_64", "pc", "windows", "msvc", "shared-pgo">>),
      Txt(<<"x86_64", "unknown", "linux", "gnu", "install_only">>),
      Txt(<<"i686", "pc", "windows", "msvc", "shared-noopt">>) }

\* Triples with two flavor tags, the one later in the preference list
\* standing first in the text.
TwoTagTriples ==
    { Txt(<<"aarch64", "apple", "darwin", "debug", "lto">>),
      Txt(<<"aarch64", "apple", "darwin", "lto", "pgo">>),
      Txt(<<"x86_64", "unknown", "linux", "gnu", "noopt", "shared-pgo">>) }

TripleInputs ==
    {Txt(names) : names \in SeqUpTo(PieceNames, MaxPieces) \ {<<>>}}
        \cup {SPECIAL_TRIPLES[i][1] : i \in 1..Len(SPECIAL_TRIPLES)}
        \cup KnownTriples \cup TwoTagTriples

PyPyFile(arch, platform) ==
    LET name == Filename("pypy", <<7, 3, 16>>, Txt(<<arch, platform>>), NoInt,
                         ".tar.bz2")
    IN  [arch |-> arch, platform |-> platform, filename |-> name,
         download_url |-> Url("https://downloads.python.org/pypy", name)]

PyPyFiles ==
    { PyPyFile("x64", "linux"), PyPyFile("x64", "win64"),
      PyPyFile("aarch64", "linux"), PyPyFile("s390x", "linux"),
      PyPyFile("x64", "win32") }

PyPyVersionEntries ==
    [stable : BOOLEAN,
     python_version : {PythonVersion(3, 6, 12), PythonVersion(3, 10, 14)},
     files : SeqUpTo(PyPyFiles, MaxPyFiles)]

PyPyFeeds == SeqUpTo(PyPyVersionEntries, MaxPyVersions)


\* The responses a server may give, headers only.
HeaderResponses ==
    {Response(st, rem, ra, rs, <<>>) :
        st \in {200, 403, 404, 429, 500}, rem \in {None, "0", "1"},
        ra \in {NoInt, 5}, rs \in {NoInt, 1}}

Urls == {PageUrl(1), ChecksumUrl("20240107")}

(* ---------------------------------------------------------------------- *)
(* The triple machine: one call of parse_triple, or one of                 *)
(* PyPyFinder.fetch_downloads                                              *)
(* ---------------------------------------------------------------------- *)
TInit ==
    /\ MIdle
    /\ FIdle /\ PIdle /\ CIdle /\ KIdle
    /\ triple = NoTriple
    /\ pdownloads = <<>>
    /\ \/ tpc = "cpython" /\ traw \in TripleInputs /\ pversions = <<>>
       \/ tpc = "pypy" /\ traw = <<>> /\ pversions \in PyPyFeeds

ParseTriple ==
    /\ tpc = "cpython"
    /\ triple' = parse_triple(traw)
    /\ tpc' = "parsed"
    /\ UNCHANGED <<traw, pversions, pdownloads, fvars, pvars, mvars, cvars, kvars>>

PyPyFetchDownloads ==
    /\ tpc = "pypy"
    /\ pdownloads' = PyPy_fetch_downloads(pversions)
    /\ tpc' = "parsed"
    /\ UNCHANGED <<traw, pversions, triple, fvars, pvars, mvars, cvars, kvars>>

TNext == ParseTriple \/ PyPyFetchDownloads

SpecTriple == TInit /\ [][TNext]_vars

(* ---------------------------------------------------------------------- *)
(* The fetch machine: one call of fetch(client, url)                       *)
(* ---------------------------------------------------------------------- *)
FInit ==
    /\ MIdle
    /\ TIdle /\ PIdle /\ CIdle /\ KIdle
    /\ fpc = "idle" /\ furl = <<>> /\ clock \in 0..MaxStart
    /\ reqs = <<>> /\ resps = <<>> /\ fresult = NoResponse

\* fetch is called: line 76 up to the await.
FetchCall(url) ==
    /\ fpc = "idle"
    /\ furl' = url
    /\ reqs' = <<[url |-> url, at |-> clock]>>
    /\ fpc' = "awaiting"
    /\ UNCHANGED <<clock, resps, fresult, tvars, pvars, mvars, cvars, kvars>>

\* A rate-limited response arrives: lines 77-99, the sleep and the
\* recursive call up to its await. The call nests one frame deeper than the
\* one that awaits it; reqs holds one request per nested call.
FetchAgain(resp) ==
    /\ fpc = "awaiting"
    /\ FetchOutcome(resp) = "retry"
    /\ Len(reqs) < RecursionLimit
    /\ LET after == FetchRetryStep(furl, clock, reqs, resps, resp)
       IN  clock' = after.clock /\ reqs' = after.reqs /\ resps' = after.resps
    /\ UNCHANGED <<fpc, furl, fresult, tvars, pvars, mvars, cvars, kvars>>

\* The same, within the attempts the fetch machine explores.
FetchRetry(resp) ==
    /\ Len(reqs) < MaxAttempts
    /\ FetchAgain(resp)

\* A rate-limited response arrives when the calls are nested as deep as
\* the interpreter allows: fetch sleeps (lines 84, 93, 98) and the
\* recursive call raises RecursionError, which no call of the chain
\* catches; no further request is issued. The frames of the caller, of
\* the event loop and of client.get count against the same limit, so the
\* program reaches this point no later than the model does.
FetchOverflow(resp) ==
    /\ fpc = "awaiting"
    /\ FetchOutcome(resp) = "retry"
    /\ Len(reqs) >= RecursionLimit
    /\ LET wait == WaitFor(resp, clock)
       IN  /\ clock' = Sleep(clock, wait)
           /\ resps' = Append(resps, [resp |-> resp, at |-> clock, wait |-> wait])
    /\ fpc' = "overflowed"
    /\ UNCHANGED <<furl, reqs, fresult, tvars, pvars, mvars, cvars, kvars>>

\* An error response arrives: line 101 raises.
FetchRaise(resp) ==
    /\ fpc = "awaiting"
    /\ FetchOutcome(resp) = "raise"
    /\ resps' = Append(resps, [resp |-> resp, at |-> clock, wait |-> NoInt])
    /\ fresult' = resp
    /\ fpc' = "raised"
    /\ UNCHANGED <<furl, clock, reqs, tvars, pvars, mvars, cvars, kvars>>

\* Any other response arrives: line 102 returns it.
FetchReturn(resp) ==
    /\ fpc = "awaiting"
    /\ FetchOutcome(resp) = "return"
    /\ resps' = Append(resps, [resp |-> resp, at |-> clock, wait |-> NoInt])
    /\ fresult' = resp
    /\ fpc' = "returned"
    /\ UNCHANGED <<furl, clock, reqs, tvars, pvars, mvars, cvars, kvars>>

FNext ==
    \/ \E url \in Urls : FetchCall(url)
    \/ \E resp \in HeaderResponses : FetchRetry(resp)
    \/ \E resp \in HeaderResponses : FetchRaise(resp)
    \/ \E resp \in HeaderResponses : FetchReturn(resp)

SpecFetch == FInit /\ [][FNext]_vars

(* ---------------------------------------------------------------------- *)
(* fetch against a server that is rate-limiting without end                *)
(* ---------------------------------------------------------------------- *)
\* The answers of a server that reports the rate limit as exhausted and
\* gives no hint of when to come back.
HintlessResponses == {Response(status, "0", NoInt, NoInt, <<>>) : status \in {403, 429}}

\* The server goes on answering as it did the last time.
StormNext ==
    \/ \E url \in Urls : FetchCall(url)
    \/ \E resp \in HintlessResponses :
          /\ IF resps = <<>> THEN TRUE ELSE resp = resps[Len(resps)].resp
          /\ FetchAgain(resp)
    \/ \E resp \in HintlessResponses :
          /\ IF resps = <<>> THEN TRUE ELSE resp = resps[Len(resps)].resp
          /\ FetchOverflow(resp)

SpecStorm == FInit /\ [][StormNext]_vars

(* ---------------------------------------------------------------------- *)
(* The selection machine: one call of pick_best_download                   *)
(* ---------------------------------------------------------------------- *)
\* The flavors parse_triple can put in a triple.
Flavors ==
    {FLAVOR_PREFERENCES[i] : i \in 1..Len(FLAVOR_PREFERENCES)}
        \cup {HIDDEN_FLAVORS[i] : i \in 1..Len(HIDDEN_FLAVORS)} \cup {None}

\* Candidates of one group (3.12.1, x86_64, linux) with the given flavors;
\* the filename tells the candidates apart.
CandidateName(flavor, i) ==
    Filename("cpython", PythonVersion(3, 12, 1),
             Txt(<<"x86_64", "unknown", "linux", "gnu">>)
                 \o (IF flavor = None THEN <<>> ELSE <<Dash>> \o Lex(flavor)),
             i, ".tar.zst")

CandidateList(flavors) ==
    [i \in 1..Len(flavors) |->
        PythonDownload(PythonVersion(3, 12, 1),
                       PlatformTriple("x86_64", "linux", "gnu", flavors[i]),
                       "cpython", CandidateName(flavors[i], i),
                       Url("20240107", CandidateName(flavors[i], i)))]

PInit ==
    /\ MIdle
    /\ TIdle /\ FIdle /\ CIdle /\ KIdle
    /\ ppc = "called"
    /\ candidates \in {CandidateList(f) : f \in SeqUpTo(Flavors, MaxCandidates)}
    /\ best = NoDownload

PickBestDownload ==
    /\ ppc = "called"
    /\ best' = pick_best_download(candidates)
    /\ ppc' = "picked"
    /\ UNCHANGED <<candidates, tvars, mvars, fvars, cvars, kvars>>

PNext == PickBestDownload

SpecPick == PInit /\ [][PNext]_vars

(* ---------------------------------------------------------------------- *)
(* The collector machine: one call of fetch_indygreg_downloads(pages)      *)
(* ---------------------------------------------------------------------- *)
Asset(release, ver, names, ext) ==
    [browser_download_url |->
        Url(release, Filename("cpython", ver, Txt(names), NoInt, ext))]

Row(assets) == [assets |-> assets]

LinuxDebug ==
    Asset("20240107", PythonVersion(3, 12, 1),
          <<"x86_64", "unknown", "linux", "gnu", "debug", "full">>, ".tar.zst")
LinuxLto ==
    Asset("20240107", PythonVersion(3, 12, 1),
          <<"x86_64", "unknown", "linux", "gnu", "lto", "full">>, ".tar.zst")
LinuxSharedPgo ==
    Asset("20240107", PythonVersion(3, 12, 1),
          <<"x86_64", "unknown", "linux", "gnu", "shared-pgo">>, ".tar.zst")
LinuxPgoLto ==
    Asset("20240107", PythonVersion(3, 12, 1),
          <<"x86_64", "unknown", "linux", "gnu", "pgo+lto", "full">>, ".tar.zst")
LinuxMusl ==
    Asset("20240107", PythonVersion(3, 12, 1),
          <<"x86_64", "unknown", "linux", "musl", "lto", "full">>, ".tar.zst")
LinuxSha256 ==
    Asset("20240107", PythonVersion(3, 12, 1),
          <<"x86_64", "unknown", "linux", "gnu", "lto", "full">>, ".tar.zst.sha256")
LinuxV3 ==
    Asset("20240107", PythonVersion(3, 12, 1),
          <<"x86_64_v3", "unknown", "linux", "gnu", "lto">>, ".tar.zst")
LinuxPpc ==
    Asset("20240107", PythonVersion(3, 12, 1),
          <<"ppc64le", "unknown", "linux", "gnu", "noopt", "full">>, ".tar.zst")
WindowsNoopt ==
    Asset("20231002", PythonVersion(3, 12, 1),
          <<"x86_64", "pc", "windows", "msvc", "noopt", "full">>, ".tar.zst")
WindowsGnuLto ==
    Asset("20231002", PythonVersion(3, 12, 1),
          <<"x86_64", "pc", "windows", "gnu", "lto">>, ".tar.zst")
MacInstallOnly ==
    Asset("20231002", PythonVersion(3, 11, 7),
          <<"aarch64", "apple", "darwin", "install_only">>, ".tar.gz")
MacInstallOnlyOld ==
    Asset("20230826", PythonVersion(3, 11, 7),
          <<"aarch64", "apple", "darwin", "install_only">>, ".tar.gz")
OldLinuxLto ==
    Asset("20231002", PythonVersion(3, 12, 1),
          <<"x86_64", "unknown", "linux", "gnu", "lto", "full">>, ".tar.zst")

\* The decoded bodies a release page may have; <<>> is the empty list.
PageBodies ==
    { <<>>,
      << Row(<<LinuxDebug, LinuxLto, LinuxSharedPgo>>) >>,
      << Row(<<LinuxPgoLto, LinuxMusl, LinuxSha256>>) >>,
      << Row(<<LinuxMusl, LinuxSha256, LinuxV3, LinuxPpc>>), Row(<<>>) >>,
      << Row(<<WindowsNoopt, WindowsGnuLto>>), Row(<<MacInstallOnly>>) >>,
      << Row(<<MacInstallOnlyOld>>), Row(<<OldLinuxLto, LinuxDebug>>) >> }

\* What the release API may answer to a page request.
PageResponses ==
    {Response(200, "1", NoInt, NoInt, body) : body \in PageBodies}
        \cup { Response(429, "0", 5, NoInt, <<>>),
               Response(500, None, NoInt, NoInt, <<>>) }

CInit ==
    /\ MIdle
    /\ TIdle /\ FIdle /\ PIdle /\ KIdle
    /\ CIdle

\* fetch_indygreg_downloads is called: lines 185-189 up to the first await,
\* or, when range(1, pages) is empty, the whole function.
CollectCall(p) ==
    /\ cpc = "idle"
    /\ pages' = p
    /\ IF 1 < p
       THEN /\ page' = 1
            /\ requested' = <<1>>
            /\ gets' = 1
            /\ furl' = PageUrl(1)
            /\ reqs' = <<[url |-> PageUrl(1), at |-> clock]>>
            /\ fpc' = "awaiting"
            /\ cpc' = "awaiting"
            /\ UNCHANGED downloads
       ELSE /\ downloads' = BestDownloads(results)
            /\ cpc' = "done"
            /\ UNCHANGED <<page, requested, gets, furl, reqs, fpc>>
    /\ UNCHANGED <<results, served, clock, resps, fresult, tvars, pvars, mvars, kvars>>

\* The page request is answered with a rate-limited response: fetch sleeps
\* and repeats the request.
CollectRetry(resp) ==
    /\ cpc = "awaiting"
    /\ FetchOutcome(resp) = "retry"
    /\ gets < Len(requested) + MaxPageRetries
    /\ LET after == FetchRetryStep(furl, clock, reqs, resps, resp)
       IN  clock' = after.clock /\ reqs' = after.reqs /\ resps' = after.resps
    /\ gets' = gets + 1
    /\ UNCHANGED <<fpc, furl, fresult, cpc, pages, page, results, downloads,
                   requested, served, tvars, pvars, mvars, kvars>>

\* The page request is answered with an error: fetch raises, and the
\* exception leaves fetch_indygreg_downloads.
CollectRaise(resp) ==
    /\ cpc = "awaiting"
    /\ FetchOutcome(resp) = "raise"
    /\ resps' = Append(resps, [resp |-> resp, at |-> clock, wait |-> NoInt])
    /\ fresult' = resp
    /\ fpc' = "raised"
    /\ cpc' = "failed"
    /\ UNCHANGED <<furl, clock, reqs, pages, page, results, downloads,
                   requested, gets, served, tvars, pvars, mvars, kvars>>

\* The page request is answered: lines 190-206 for this page, then either
\* the next iteration up to its await or lines 208-214.
CollectPage(resp) ==
    /\ cpc = "awaiting"
    /\ FetchOutcome(resp) = "return"
    /\ LET rows == resp.body
           grouped == IF EndOfFeed(rows) THEN results ELSE AddRows(results, rows)
       IN  /\ served' = Append(served, rows)
           /\ results' = grouped
           /\ IF ~EndOfFeed(rows) /\ page + 1 < pages
              THEN /\ page' = page + 1
                   /\ requested' = Append(requested, page + 1)
                   /\ gets' = gets + 1
                   /\ furl' = PageUrl(page + 1)
                   /\ reqs' = <<[url |-> PageUrl(page + 1), at |-> clock]>>
                   /\ resps' = <<>>
                   /\ UNCHANGED <<fpc, fresult, cpc, downloads>>
              ELSE /\ downloads' = BestDownloads(grouped)
                   /\ resps' = Append(resps, [resp |-> resp, at |-> clock,
                                              wait |-> NoInt])
                   /\ fresult' = resp
                   /\ fpc' = "returned"
                   /\ cpc' = "done"
                   /\ UNCHANGED <<page, requested, gets, furl, reqs>>
    /\ UNCHANGED <<pages, clock, tvars, pvars, mvars, kvars>>

CNext ==
    \/ \E p \in 1..MaxPagesArg : CollectCall(p)
    \/ \E resp \in PageResponses : CollectRetry(resp)
    \/ \E resp \in PageResponses : CollectRaise(resp)
    \/ \E resp \in PageResponses : CollectPage(resp)

SpecCollect == CInit /\ [][CNext]_vars

(* ---------------------------------------------------------------------- *)
(* The checksum machine: one call of fetch_indygreg_checksums(downloads, n) *)
(* ---------------------------------------------------------------------- *)
DownloadOf(asset) == parse_download_url(asset.browser_download_url)

\* The downloads arguments: lists as fetch_indygreg_downloads returns them.
DownloadLists ==
    { <<>>,
      <<DownloadOf(LinuxSharedPgo)>>,
      <<DownloadOf(LinuxSharedPgo), DownloadOf(WindowsGnuLto)>>,
      <<DownloadOf(WindowsGnuLto), DownloadOf(MacInstallOnly)>>,
      <<DownloadOf(LinuxSharedPgo), DownloadOf(WindowsGnuLto),
        DownloadOf(MacInstallOnlyOld)>> }

NameOf(asset) == asset.browser_download_url.filename

\* The texts a SHA256SUMS manifest may have, as (checksum, filename) lines.
ManifestBodies ==
    { <<>>,
      << <<"sha-a", NameOf(LinuxSharedPgo)>>, <<"sha-b", NameOf(LinuxLto)>> >>,
      << <<"sha-c", NameOf(WindowsGnuLto)>>, <<"sha-d", NameOf(MacInstallOnly)>>,
         <<"sha-e", NameOf(LinuxSharedPgo)>> >> }

\* What the server may answer to a manifest request.
ManifestResponses ==
    {Response(200, "1", NoInt, NoInt, body) : body \in ManifestBodies}
        \cup { Response(429, "0", 5, NoInt, <<>>),
               Response(404, None, NoInt, NoInt, <<>>),
               Response(500, None, NoInt, NoInt, <<>>) }

KInit ==
    /\ MIdle
    /\ TIdle /\ FIdle /\ PIdle /\ CIdle
    /\ KIdle

\* fetch_indygreg_checksums is called: lines 297-319 up to the await that
\* leaves the first TaskGroup; the whole function when batched raises
\* ValueError (n < 1) or there is no url.
ChecksumsCall(dls, n, order) ==
    /\ kpc = "idle"
    /\ kdownloads = <<>>
    /\ kn' = n
    /\ korder' = order
    /\ IF n < 1
       THEN /\ kpc' = "failed"
            /\ kdownloads' = dls
            /\ UNCHANGED <<kbatches, kbatch, tasks>>
       ELSE LET batches == Batched(order, n)
            IN  /\ kbatches' = batches
                /\ IF batches = <<>>
                   THEN /\ kdownloads' = WithChecksums(dls, <<>>)
                        /\ kpc' = "done"
                        /\ UNCHANGED <<kbatch, tasks>>
                   ELSE /\ kdownloads' = dls
                        /\ kbatch' = 1
                        /\ tasks' = TasksOf(batches[1], 1)
                        /\ kpc' = "batch"
    /\ UNCHANGED <<kretries, tvars, fvars, pvars, mvars, cvars>>

\* Task i can be resumed with the response to its GET: the GET is in flight
\* and the thread is not held by a time.sleep.
Awaiting(i) ==
    i \in 1..Len(tasks) /\ tasks[i].state = "awaiting" /\ ~Blocked(tasks)

\* Task i gets a rate-limited response: fetch calls time.sleep (lines
\* 77-98), which does not return before the wait is over.
TaskLimited(i, resp) ==
    /\ Awaiting(i)
    /\ FetchOutcome(resp) = "retry"
    /\ kretries < MaxTaskRetries
    /\ tasks' = [tasks EXCEPT ![i].state = "sleeping", ![i].resp = resp]
    /\ kretries' = kretries + 1
    /\ UNCHANGED <<kpc, kdownloads, kn, korder, kbatches, kbatch, tvars, fvars,
                   pvars, mvars,
                   cvars>>

\* time.sleep returns in task i, and the recursive call of fetch repeats
\* the request (lines 86, 95, 99).
TaskWake(i) ==
    /\ i \in 1..Len(tasks)
    /\ tasks[i].state = "sleeping"
    /\ clock' = Sleep(clock, WaitFor(tasks[i].resp, clock))
    /\ tasks' = [tasks EXCEPT ![i].state = "awaiting", ![i].resp = NoResponse]
    /\ UNCHANGED <<kpc, kdownloads, kn, korder, kbatches, kbatch, kretries, tvars,
                   pvars, mvars, cvars, fpc, furl, reqs, resps, fresult>>

\* Task i gets its response: fetch_checksums returns it (line 310).
TaskReturn(i, resp) ==
    /\ Awaiting(i)
    /\ FetchOutcome(resp) = "return"
    /\ tasks' = [tasks EXCEPT ![i].state = "done", ![i].resp = resp,
                              ![i].ended = NextEnded(tasks)]
    /\ UNCHANGED <<kpc, kdownloads, kn, korder, kbatches, kbatch, kretries, tvars,
                   fvars, pvars, mvars, cvars>>

\* Task i gets a 404: fetch raises, fetch_checksums returns None (line 309).
TaskNotFound(i, resp) ==
    /\ Awaiting(i)
    /\ FetchOutcome(resp) = "raise"
    /\ IsNotFound(resp)
    /\ tasks' = [tasks EXCEPT ![i].state = "notfound", ![i].resp = resp,
                              ![i].ended = NextEnded(tasks)]
    /\ UNCHANGED <<kpc, kdownloads, kn, korder, kbatches, kbatch, kretries, tvars,
                   fvars, pvars, mvars, cvars>>

\* Task i gets another error: fetch_checksums re-raises (line 308) and the
\* TaskGroup starts to abort.
TaskFail(i, resp) ==
    /\ Awaiting(i)
    /\ FetchOutcome(resp) = "raise"
    /\ ~IsNotFound(resp)
    /\ tasks' = [tasks EXCEPT ![i].state = "failed", ![i].resp = resp,
                              ![i].ended = NextEnded(tasks)]
    /\ UNCHANGED <<kpc, kdownloads, kn, korder, kbatches, kbatch, kretries, tvars,
                   fvars, pvars, mvars, cvars>>

\* The aborting TaskGroup cancels task i, whose GET is still in flight.
TaskCancel(i) ==
    /\ Awaiting(i)
    /\ Aborting(tasks)
    /\ tasks' = [tasks EXCEPT ![i].state = "cancelled",
                              ![i].ended = NextEnded(tasks)]
    /\ UNCHANGED <<kpc, kdownloads, kn, korder, kbatches, kbatch, kretries, tvars,
                   fvars, pvars, mvars, cvars>>

\* The TaskGroup is left: the exception of a failed task leaves the
\* function; otherwise line 320 and the next batch up to its await, or,
\* after the last batch, lines 322-334.
BatchExit ==
    /\ kpc = "batch"
    /\ ~Blocked(tasks)
    /\ BatchFinished(tasks, kbatch)
    /\ IF Aborting(tasks)
       THEN /\ kpc' = "failed"
            /\ UNCHANGED <<kdownloads, kbatch, tasks>>
       ELSE IF kbatch < Len(kbatches)
       THEN /\ kbatch' = kbatch + 1
            /\ tasks' = tasks \o TasksOf(kbatches[kbatch + 1], kbatch + 1)
            /\ UNCHANGED <<kpc, kdownloads>>
       ELSE /\ kdownloads' = WithChecksums(kdownloads, ManifestLines(tasks))
            /\ kpc' = "done"
            /\ UNCHANGED <<kbatch, tasks>>
    /\ UNCHANGED <<kn, korder, kbatches, kretries, tvars, fvars, pvars, mvars, cvars>>

KNext ==
    \/ \E dls \in DownloadLists, n \in 0..MaxN :
          \E order \in Orders(ChecksumUrls(dls)) : ChecksumsCall(dls, n, order)
    \/ \E i \in 1..Len(tasks), resp \in ManifestResponses : TaskLimited(i, resp)
    \/ \E i \in 1..Len(tasks) : TaskWake(i)
    \/ \E i \in 1..Len(tasks), resp \in ManifestResponses : TaskReturn(i, resp)
    \/ \E i \in 1..Len(tasks), resp \in ManifestResponses : TaskNotFound(i, resp)
    \/ \E i \in 1..Len(tasks), resp \in ManifestResponses : TaskFail(i, resp)
    \/ \E i \in 1..Len(tasks) : TaskCancel(i)
    \/ BatchExit

SpecChecksums == KInit /\ [][KNext]_vars

(* ---------------------------------------------------------------------- *)
(* The main machine: one run of async_main                                 *)
(* ---------------------------------------------------------------------- *)
\* The release feeds of a run: page 1 as given, page 2 the empty list, the
\* assets of one release, so that find fetches one page of assets and at
\* most one manifest.
MainPageBodies ==
    { <<>>,
      << Row(<<LinuxDebug, LinuxLto, LinuxSharedPgo>>) >>,
      << Row(<<LinuxMusl, LinuxSha256, LinuxV3, LinuxPpc>>), Row(<<>>) >>,
      << Row(<<WindowsNoopt, WindowsGnuLto>>), Row(<<MacInstallOnly>>) >> }

PyPyEntry(version, files) ==
    [stable |-> TRUE, python_version |-> version, files |-> files]

\* The PyPy versions feeds of a run.
MainPyPyFeeds ==
    { <<>>,
      << PyPyEntry(PythonVersion(3, 9, 16),
                   <<PyPyFile("x64", "linux"), PyPyFile("aarch64", "linux")>>),
         PyPyEntry(PythonVersion(3, 10, 12),
                   <<PyPyFile("x64", "win64"), PyPyFile("x64", "linux")>>) >>,
      << PyPyEntry(PythonVersion(3, 10, 12), <<PyPyFile("x64", "linux")>>),
         PyPyEntry(PythonVersion(3, 10, 14), <<PyPyFile("arm64", "darwin")>>) >> }

\* The texts of the PyPy checksum page, as (checksum, filename) lines.
PyPyChecksumTexts ==
    { <<>>,
      << <<"sha-p", PyPyFile("x64", "linux").filename>>,
         <<"sha-q", NameOf(LinuxSharedPgo)>> >> }

\* What fetch can end with: a response it returns or raises for.
FinalResponses(bodies) ==
    {Response(200, "1", NoInt, NoInt, body) : body \in bodies}
        \cup { Response(404, None, NoInt, NoInt, <<>>),
               Response(500, None, NoInt, NoInt, <<>>) }

MInit ==
    /\ TIdle /\ FIdle /\ PIdle /\ CIdle /\ KIdle
    /\ MIdle

\* async_main is called: lines 451-478 up to the await of the first page
\* of the CPython finder, or sys.exit(1) without a token.
MainCall(token) ==
    /\ mpc = "idle"
    /\ mpc' = IF token = "" THEN "exit" ELSE "cpython_downloads"
    /\ UNCHANGED <<found, mdownloads, mresps, rarg, emitted, tvars, fvars,
                   pvars, cvars, kvars>>

\* The fetch of the release pages ends: fetch_indygreg_downloads raises or
\* returns the best downloads; without a manifest to fetch,
\* fetch_indygreg_checksums returns at once and the PyPy finder starts.
CPythonDownloads(resp) ==
    /\ mpc = "cpython_downloads"
    /\ mresps' = Append(mresps, [stage |-> mpc, resp |-> resp])
    /\ IF Propagates(mpc, resp)
       THEN mpc' = "aborted" /\ UNCHANGED <<found, mdownloads>>
       ELSE LET dls == BestDownloads(AddRows(<<>>, resp.body))
            IN  IF ChecksumUrls(dls) = {}
                THEN /\ mdownloads' = mdownloads \o WithChecksums(dls, <<>>)
                     /\ found' = <<>>
                     /\ mpc' = "pypy_downloads"
                ELSE /\ found' = dls
                     /\ mpc' = "cpython_checksums"
                     /\ UNCHANGED mdownloads
    /\ UNCHANGED <<rarg, emitted, tvars, fvars, pvars, cvars, kvars>>

\* The fetch of the manifest ends: fetch_indygreg_checksums raises or sets
\* the checksums (none after a 404), find returns, async_main extends its
\* list and the PyPy finder starts.
CPythonChecksums(resp) ==
    /\ mpc = "cpython_checksums"
    /\ mresps' = Append(mresps, [stage |-> mpc, resp |-> resp])
    /\ IF Propagates(mpc, resp)
       THEN mpc' = "aborted" /\ UNCHANGED <<found, mdownloads>>
       ELSE /\ mdownloads' = mdownloads \o WithChecksums(found, resp.body)
            /\ found' = <<>>
            /\ mpc' = "pypy_downloads"
    /\ UNCHANGED <<rarg, emitted, tvars, fvars, pvars, cvars, kvars>>

\* The fetch of the PyPy versions feed ends: fetch_downloads raises or
\* returns its downloads, and fetch_checksums starts.
PyPyDownloads(resp) ==
    /\ mpc = "pypy_downloads"
    /\ mresps' = Append(mresps, [stage |-> mpc, resp |-> resp])
    /\ IF Propagates(mpc, resp)
       THEN mpc' = "aborted" /\ UNCHANGED found
       ELSE /\ found' = PyPy_fetch_downloads(resp.body)
            /\ mpc' = "pypy_checksums"
    /\ UNCHANGED <<mdownloads, rarg, emitted, tvars, fvars, pvars, cvars,
                   kvars>>

\* The fetch of the PyPy checksum page ends: fetch_checksums raises, or
\* sets the checksums, find returns, async_main extends its list, leaves
\* the client and calls render.
PyPyChecksums(resp) ==
    /\ mpc = "pypy_checksums"
    /\ mresps' = Append(mresps, [stage |-> mpc, resp |-> resp])
    /\ IF Propagates(mpc, resp)
       THEN mpc' = "aborted" /\ UNCHANGED <<found, mdownloads, rarg, emitted>>
       ELSE LET all == mdownloads
                         \o WithChecksums(found, PyPyChecksumLines(resp.body))
            IN  /\ rarg' = all
                /\ mdownloads' = SortByKey(all)
                /\ emitted' = Render(all)
                /\ found' = <<>>
                /\ mpc' = "rendered"
    /\ UNCHANGED <<tvars, fvars, pvars, cvars, kvars>>

MNext ==
    \/ \E token \in {"", "ghp"} : MainCall(token)
    \/ \E resp \in FinalResponses(MainPageBodies) : CPythonDownloads(resp)
    \/ \E resp \in FinalResponses(ManifestBodies) : CPythonChecksums(resp)
    \/ \E resp \in FinalResponses(MainPyPyFeeds) : PyPyDownloads(resp)
    \/ \E resp \in FinalResponses(PyPyChecksumTexts) : PyPyChecksums(resp)

SpecMain == MInit /\ [][MNext]_vars

(* ---------------------------------------------------------------------- *)
(* C2                                                                      *)
(* ---------------------------------------------------------------------- *)
\* The pieces of the text as parse_triple sees them.
PiecesOf(text) == Split(SpecialGet(text))

\* The last piece that names a platform names linux.
ResolvesToLinux(pieces) ==
    \E i \in 1..Len(pieces) :
        /\ pieces[i] = <<"linux">>
        /\ \A j \in (i + 1)..Len(pieces) :
               pieces[j] \notin {<<"darwin">>, <<"windows">>, <<"linux">>}

\* C2: no PlatformTriple with platform linux and no environment is ever
\* constructed: parse_triple returns nothing for a text that resolves to
\* linux and has no piece of the environment table, whatever it returns is
\* never linux without environment, and every linux triple of
\* PyPyFinder.fetch_downloads has environment gnu.
C2_NoLinuxWithoutEnvironment ==
    tpc = "parsed" =>
        /\ ~(triple.platform = "linux" /\ triple.environment = None)
        /\ (/\ ResolvesToLinux(PiecesOf(traw))
            /\ \A i \in 1..Len(PiecesOf(traw)) : PiecesOf(traw)[i] # <<"gnu">>)
               => triple = NoTriple
        /\ \A i \in 1..Len(pdownloads) :
               pdownloads[i].triple.platform = "linux"
                   => pdownloads[i].triple.environment = "gnu"

\* The alias linux64-musl has been parsed and rejected.
C2_Witness ==
    /\ tpc = "parsed"
    /\ traw = Txt(<<"linux64", "musl">>)
    /\ triple = NoTriple

(* ---------------------------------------------------------------------- *)
(* C4, C5, C6: fetch                                                       *)
(* ---------------------------------------------------------------------- *)
\* Status 403 or 429 with x-ratelimit-remaining "0", as the claims state it.
LimitedResponse(r) ==
    (r.status = 403 \/ r.status = 429) /\ r.remaining = "0"

C5_WaitDuration ==
    \A k \in 1..Len(resps) :
        LET e == resps[k]
            r == e.resp
        IN  LimitedResponse(r) =>
                /\ e.wait >= 0
                /\ r.retry_after # NoInt => e.wait = r.retry_after
                /\ (r.retry_after = NoInt /\ r.reset # NoInt /\ r.reset >= e.at)
                      => e.wait = r.reset - e.at
                /\ (r.retry_after = NoInt /\ r.reset # NoInt /\ r.reset < e.at)
                      => e.wait = 0
                /\ (r.retry_after = NoInt /\ r.reset = NoInt) => e.wait = 120

\* A reset time in the past, with no retry-after, gave a wait of 0.
C5_Witness ==
    \E k \in 1..Len(resps) :
        /\ LimitedResponse(resps[k].resp)
        /\ resps[k].resp.retry_after = NoInt
        /\ resps[k].resp.reset # NoInt
        /\ resps[k].resp.reset < resps[k].at
        /\ resps[k].wait = 0
        /\ Len(reqs) > k

\* C6: the request that follows a rate-limited response is issued only when
\* the whole wait has elapsed and is for the same url, and what fetch ends
\* with is the response to its last request, never a rate-limited one.
C6_RetryAfterWholeWait ==
    /\ \A k \in 1..(Len(reqs) - 1) :
          /\ k <= Len(resps)
          /\ LimitedResponse(resps[k].resp)
          /\ reqs[k + 1].at >= resps[k].at + resps[k].wait
          /\ reqs[k + 1].url = reqs[k].url
          /\ reqs[k + 1].url = furl
    /\ fpc \in {"returned", "raised"} =>
          /\ Len(resps) = Len(reqs)
          /\ fresult = resps[Len(resps)].resp
          /\ ~LimitedResponse(fresult)
          /\ \A k \in 1..(Len(resps) - 1) :
                resps[k].resp.retry_after = 5 => clock >= resps[k].at + 5

\* A 429 with remaining "0" and retry-after 5 was retried once and the
\* retried request's response returned.
C6_Witness ==
    /\ fpc = "returned"
    /\ Len(reqs) = 2
    /\ resps[1].resp.status = 429
    /\ resps[1].resp.retry_after = 5
    /\ fresult.status = 200
    /\ clock >= reqs[1].at + 5

(* ---------------------------------------------------------------------- *)
(* C3: pick_best_download                                                  *)
(* ---------------------------------------------------------------------- *)
\* The candidate's flavor is in the preference list.
Listed(d) == \E i \in 1..Len(FLAVOR_PREFERENCES) : FLAVOR_PREFERENCES[i] = d.triple.flavor

\* The smallest position of the candidate's flavor in the preference list.
FirstPosition(d) ==
    CHOOSE i \in 1..Len(FLAVOR_PREFERENCES) :
        /\ FLAVOR_PREFERENCES[i] = d.triple.flavor
        /\ \A j \in 1..(i - 1) : FLAVOR_PREFERENCES[j] # d.triple.flavor

\* a ranks no worse than b: unlisted flavors rank after every listed one.
RanksNoWorse(a, b) ==
    \/ ~Listed(b)
    \/ Listed(a) /\ FirstPosition(a) <= FirstPosition(b)

\* C3: for a non-empty candidate list pick_best_download returns one of the
\* candidates, and none of the candidates ranks better: a candidate with a
\* hidden or absent flavor is returned only when no candidate has a listed
\* flavor, and [lto, shared-pgo, pgo] gives the shared-pgo candidate.
C3_BestHasSmallestIndex ==
    (ppc = "picked" /\ candidates # <<>>) =>
        /\ \E i \in 1..Len(candidates) : candidates[i] = best
        /\ \A i \in 1..Len(candidates) : RanksNoWorse(best, candidates[i])
        /\ ~Listed(best) => \A i \in 1..Len(candidates) : ~Listed(candidates[i])
        /\ candidates = CandidateList(<<"lto", "shared-pgo", "pgo">>)
              => best = candidates[2]

\* The list [lto, shared-pgo, pgo] has been reduced to its second candidate.
C3_Witness ==
    /\ ppc = "picked"
    /\ candidates = CandidateList(<<"lto", "shared-pgo", "pgo">>)
    /\ best.triple.flavor = "shared-pgo"

(* ---------------------------------------------------------------------- *)
(* C1, C7, C8: the walk of the release pages                               *)
(* ---------------------------------------------------------------------- *)
\* The asset urls of the pages served so far, in feed order.
ServedUrls ==
    LET rowsOf(body) == Concat([i \in 1..Len(body) |-> body[i].assets])
        assets == Concat([i \in 1..Len(served) |-> rowsOf(served[i])])
    IN  [i \in 1..Len(assets) |-> assets[i].browser_download_url]

\* The Downloads those assets parse to, in feed order.
ServedCandidates ==
    LET parsed == [i \in 1..Len(ServedUrls) |-> parse_download_url(ServedUrls[i])]
    IN  SelectSeq(parsed, LAMBDA d : d # NoDownload)

SameGroup(a, b) ==
    /\ a.version = b.version
    /\ a.triple.arch = b.triple.arch
    /\ a.triple.platform = b.triple.platform

\* The page of the spec's end-to-end example: debug, lto and shared-pgo
\* builds of one (version, architecture, platform).
ThreeFlavorPage == << Row(<<LinuxDebug, LinuxLto, LinuxSharedPgo>>) >>

\* C1: the list fetch_indygreg_downloads returns holds, for every (version,
\* architecture, platform) of a collected candidate, exactly one Download,
\* and that Download is a collected candidate of the group, environment and
\* flavor playing no part in the grouping; a feed of the three-flavor page
\* followed by an empty page gives the shared-pgo Download alone.
C1_OneDownloadPerGroup ==
    cpc = "done" =>
        LET cands == ServedCandidates
        IN  /\ \A i \in 1..Len(cands) :
                  Cardinality({j \in 1..Len(downloads) :
                                  SameGroup(downloads[j], cands[i])}) = 1
            /\ \A j \in 1..Len(downloads) :
                  \E i \in 1..Len(cands) : downloads[j] = cands[i]
            /\ served = <<ThreeFlavorPage, <<>> >> =>
                  /\ Len(downloads) = 1
                  /\ downloads[1].triple.flavor = "shared-pgo"

\* Two candidates of one group that differ in environment and flavor were
\* collected, and the list returned holds one Download for the group.
C1_Witness ==
    /\ cpc = "done"
    /\ LET cands == ServedCandidates
       IN  \E i, k \in 1..Len(cands) :
               /\ SameGroup(cands[i], cands[k])
               /\ cands[i].triple.environment # cands[k].triple.environment
               /\ cands[i].triple.flavor # cands[k].triple.flavor
               /\ Cardinality({j \in 1..Len(downloads) :
                                  SameGroup(downloads[j], cands[i])}) = 1

\* C7, as claimed: with page limit pages = P and none of the pages served
\* empty, the finished walk has requested exactly the pages 1, 2, ..., P in
\* ascending order, each once.
C7_RequestsPagesOneToP ==
    (cpc = "done" /\ \A i \in 1..Len(served) : served[i] # <<>>)
        => requested = [i \in 1..pages |-> i]

\* C8: a page that decodes to the empty list ends the walk, so that no page
\* after it is requested; the pages are requested in ascending order, each
\* once; the grouping holds exactly the valid assets of the pages served
\* before; and a walk that ended on a page that was not the empty list,
\* whatever its assets, ended because range(1, pages) was used up.
C8_StopsAtFirstEmptyPage ==
    /\ requested = [i \in 1..Len(requested) |-> i]
    /\ \A i \in 1..Len(served) :
          served[i] = <<>> =>
              /\ i = Len(served)
              /\ Len(requested) = i
              /\ cpc = "done"
    /\ LET cands == ServedCandidates
       IN  /\ \A v \in 1..Len(results) :
                 \A g \in 1..Len(results[v].platform_downloads) :
                     LET group == results[v].platform_downloads[g]
                     IN  group.flavors =
                             SelectSeq(cands,
                                       LAMBDA d : /\ d.version = results[v].version
                                                  /\ GroupKey(d) = group.key)
           /\ \A i \in 1..Len(cands) :
                 \E v \in 1..Len(results) :
                     \E g \in 1..Len(results[v].platform_downloads) :
                         /\ results[v].version = cands[i].version
                         /\ results[v].platform_downloads[g].key = GroupKey(cands[i])
    /\ (cpc = "done" /\ served # <<>> /\ served[Len(served)] # <<>>)
          => Len(requested) = pages - 1
    /\ (cpc = "awaiting") => Len(requested) = Len(served) + 1

\* The invalid-only page of the fixtures.
InvalidOnlyPage == << Row(<<LinuxMusl, LinuxSha256, LinuxV3, LinuxPpc>>), Row(<<>>) >>

\* With four pages allowed, a page of invalid assets only was followed by
\* the request of page 2, whose empty list ended the walk before page 3.
C8_Witness ==
    /\ cpc = "done"
    /\ pages = 4
    /\ served = <<InvalidOnlyPage, <<>> >>
    /\ requested = <<1, 2>>

(* ---------------------------------------------------------------------- *)
(* C9, C10: the batches of fetch_indygreg_checksums                        *)
(* ---------------------------------------------------------------------- *)
\* The manifest fetches started and not yet completed.
InFlight == {i \in 1..Len(tasks) : ~Finished(tasks[i])}

\* C9: at every moment of fetch_indygreg_checksums(downloads, n) at most n
\* manifest fetches have been started and not yet completed.
C9_AtMostNInFlight == Cardinality(InFlight) <= kn

\* Three manifests are needed, n is 2, and two fetches are in flight.
C9_Witness ==
    /\ kpc = "batch"
    /\ kn = 2
    /\ Cardinality(ChecksumUrls(kdownloads)) = 3
    /\ Cardinality(InFlight) = 2

\* C10: a fetch of a later batch exists only when every fetch of the
\* batches before it has completed with a response or a not-found result,
\* and the Downloads get their checksums only after the fetches of all
\* batches have completed.
C10_BatchesInSequence ==
    /\ \A i, j \in 1..Len(tasks) :
          tasks[i].batch < tasks[j].batch
              => tasks[i].state \in {"done", "notfound"}
    /\ \A j \in 1..Len(tasks) : tasks[j].batch <= kbatch
    /\ (\E d \in 1..Len(kdownloads) : kdownloads[d].sha256 # None)
          => kpc = "done"
    /\ kpc = "done" =>
          /\ \A i \in 1..Len(tasks) : tasks[i].state \in {"done", "notfound"}
          /\ {tasks[i].url : i \in 1..Len(tasks)} = ChecksumUrls(kdownloads)
          /\ Len(tasks) = Cardinality(ChecksumUrls(kdownloads))

\* A call with two batches has completed and set a checksum.
C10_Witness ==
    /\ kpc = "done"
    /\ Len(kbatches) = 2
    /\ \E d \in 1..Len(kdownloads) : kdownloads[d].sha256 # None

(* ---------------------------------------------------------------------- *)
(* C11: a manifest that is not found                                       *)
(* ---------------------------------------------------------------------- *)
\* The manifest of the Download's release was fetched with that outcome.
ManifestState(d, state) ==
    \E i \in 1..Len(tasks) :
        tasks[i].url = ChecksumUrlOf(d) /\ tasks[i].state = state

\* The lines of the manifests that were returned.
ReturnedLines ==
    UNION {{tasks[i].resp.body[l] : l \in 1..Len(tasks[i].resp.body)} :
              i \in {t \in 1..Len(tasks) : tasks[t].state = "done"}}

\* The checksums the returned manifests list for the file name.
ListedChecksums(filename) ==
    {ln[1] : ln \in {l \in ReturnedLines : l[2] = filename}}

\* What C11 says of errors: a 404 gives a not-found result and never a
\* failure, the call fails only on a manifest fetch that failed with
\* another error status, and then no later batch is started and no
\* checksum is set; the manifests that were returned are used.
NotFoundIsNoError ==
    /\ \A i \in 1..Len(tasks) :
          /\ tasks[i].state = "notfound" <=> tasks[i].resp.status = 404
          /\ tasks[i].state = "failed" =>
                /\ tasks[i].resp.status >= 400
                /\ tasks[i].resp.status # 404
                /\ kpc # "done"
                /\ \A j \in 1..Len(tasks) : tasks[j].batch <= tasks[i].batch
                /\ \A d \in 1..Len(kdownloads) : kdownloads[d].sha256 = None
    /\ (kpc = "failed" /\ kn >= 1) => Aborting(tasks)
    /\ kpc = "done" =>
          \A d \in 1..Len(kdownloads) :
              ListedChecksums(kdownloads[d].filename) # {}
                  => kdownloads[d].sha256
                         \in ListedChecksums(kdownloads[d].filename)

\* C11, as claimed: a manifest fetch that fails with 404 is no error, the
\* other manifests are fetched and used, and the Downloads of that release
\* end with sha256 absent; any other error status fails the call and no
\* later batch is started.
C11_NotFoundLeavesReleaseUnset ==
    /\ NotFoundIsNoError
    /\ kpc = "done" =>
          \A d \in 1..Len(kdownloads) :
              ManifestState(kdownloads[d], "notfound")
                  => kdownloads[d].sha256 = None

(* ---------------------------------------------------------------------- *)
(* C12: the checksum lookup                                                *)
(* ---------------------------------------------------------------------- *)
\* The task that fetched the url.
TaskOfUrl(url) == CHOOSE i \in 1..Len(tasks) : tasks[i].url = url

\* The lines of the returned manifests, the manifests taken in the order of
\* their urls in the batches: the order of completion plays no part in it.
LinesInBatchOrder ==
    LET urls == Concat(kbatches)
    IN  Concat([u \in 1..Len(urls) |->
                   IF tasks[TaskOfUrl(urls[u])].state = "done"
                   THEN tasks[TaskOfUrl(urls[u])].resp.body ELSE <<>>])

\* The checksum of the last line that names the file, None without one.
LastListed(lines, filename) ==
    IF \E l \in 1..Len(lines) : lines[l][2] = filename
    THEN lines[CHOOSE l \in 1..Len(lines) :
                   /\ lines[l][2] = filename
                   /\ \A m \in (l + 1)..Len(lines) : lines[m][2] # filename][1]
    ELSE None

\* C12: after fetch_indygreg_checksums has completed, every Download's
\* sha256 is a checksum that a fetched manifest lists for its file name when
\* some manifest lists it, the only one when just one is listed, and absent
\* otherwise; it is determined by the manifests and the order of their urls
\* in the batches alone, whatever the order in which the fetches of a batch
\* completed.
C12_ChecksumFromManifests ==
    kpc = "done" =>
        \A d \in 1..Len(kdownloads) :
            LET listed == ListedChecksums(kdownloads[d].filename)
            IN  /\ listed = {} <=> kdownloads[d].sha256 = None
                /\ listed # {} => kdownloads[d].sha256 \in listed
                /\ kdownloads[d].sha256
                       = LastListed(LinesInBatchOrder, kdownloads[d].filename)

\* Two fetches of one batch completed in the reverse of the order they were
\* started in, both manifests list the file name of a Download, with
\* different checksums, and the call has completed.
C12_Witness ==
    /\ kpc = "done"
    /\ \E i, j \in 1..Len(tasks) :
          /\ i < j
          /\ tasks[i].batch = tasks[j].batch
          /\ tasks[i].ended > tasks[j].ended
          /\ tasks[i].state = "done" /\ tasks[j].state = "done"
          /\ \E d \in 1..Len(kdownloads) :
                \E a \in 1..Len(tasks[i].resp.body) :
                    \E b \in 1..Len(tasks[j].resp.body) :
                        /\ tasks[i].resp.body[a][2] = kdownloads[d].filename
                        /\ tasks[j].resp.body[b][2] = kdownloads[d].filename
                        /\ tasks[i].resp.body[a][1] # tasks[j].resp.body[b][1]

(* ---------------------------------------------------------------------- *)
(* C13: the order of the rendered entries                                  *)
(* ---------------------------------------------------------------------- *)
\* Entry a may stand before entry b: pypy before cpython, then the greater
\* version first, the versions compared as integer triples, then the
\* smaller (architecture, platform) first.
MayPrecede(a, b) ==
    IF a.name # b.name THEN a.name = "pypy" /\ b.name = "cpython"
    ELSE IF a.major # b.major THEN a.major > b.major
    ELSE IF a.minor # b.minor THEN a.minor > b.minor
    ELSE IF a.patch # b.patch THEN a.patch > b.patch
    ELSE IF a.arch # b.arch THEN StrLess(a.arch, b.arch)
    ELSE StrLess(a.os, b.os) \/ a.os = b.os

\* C13: render emits the downloads it was given, each once, sorted by
\* implementation (pypy before cpython), then by version descending as
\* integer triples (3.10.12 before 3.9.16), then by (architecture,
\* platform) ascending; and for the versions a and b of any two of them,
\* a < b if and only if -b < -a.
C13_RenderOrder ==
    mpc = "rendered" =>
        /\ Len(emitted) = Len(rarg)
        /\ \A i \in 1..Len(rarg) :
              Cardinality({j \in 1..Len(emitted) : emitted[j] = Entry(rarg[i])})
                  = Cardinality({j \in 1..Len(rarg) : rarg[j] = rarg[i]})
        /\ \A i, j \in 1..Len(emitted) :
              i < j => MayPrecede(emitted[i], emitted[j])
        /\ \A i, j \in 1..Len(rarg) :
              VersionLess(rarg[i].version, rarg[j].version)
                  <=> VersionLess(Neg(rarg[j].version), Neg(rarg[i].version))

\* render was given a cpython download before the pypy ones, pypy 3.9.16
\* before pypy 3.10.12 and x86_64 before aarch64, and has emitted pypy
\* 3.10.12 before pypy 3.9.16, aarch64 before x86_64 and cpython last.
C13_Witness ==
    /\ mpc = "rendered"
    /\ rarg # <<>>
    /\ rarg[1].implementation = "cpython"
    /\ emitted[Len(emitted)].name = "cpython"
    /\ \E i, j \in 1..Len(emitted) :
          /\ i < j
          /\ emitted[i].name = "pypy" /\ emitted[j].name = "pypy"
          /\ <<emitted[i].major, emitted[i].minor, emitted[i].patch>> = <<3, 10, 12>>
          /\ <<emitted[j].major, emitted[j].minor, emitted[j].patch>> = <<3, 9, 16>>
    /\ \E i, j \in 1..Len(emitted) :
          /\ i < j
          /\ emitted[i].arch = "aarch64" /\ emitted[j].arch = "x86_64"
          /\ \E a, b \in 1..Len(rarg) :
                a > b /\ Entry(rarg[a]) = emitted[i] /\ Entry(rarg[b]) = emitted[j]

(* ---------------------------------------------------------------------- *)
(* C18: a failed fetch aborts the run                                      *)
(* ---------------------------------------------------------------------- *)
\* The fetch ended with an error that nothing catches: a client or server
\* error status, other than the 404 of a checksum manifest.
FailedFetch(e) ==
    /\ e.resp.status >= 400
    /\ ~(e.stage = "cpython_checksums" /\ e.resp.status = 404)

\* C18: when a fetch of the run (release page, checksum manifest, PyPy feed
\* or PyPy checksum page) fails with an error that propagates, the run is
\* aborted at that fetch and render is not called: nothing is emitted,
\* whatever was already found; entries are emitted only by a run all of
\* whose fetches succeeded.
C18_FailureAbortsWithoutOutput ==
    /\ \A k \in 1..Len(mresps) :
          FailedFetch(mresps[k]) =>
              /\ mpc = "aborted"
              /\ k = Len(mresps)
              /\ emitted = <<>>
              /\ rarg = <<>>
    /\ mpc # "rendered" => emitted = <<>>
    /\ mpc = "rendered" =>
          /\ mresps # <<>>
          /\ mresps[Len(mresps)].stage = "pypy_checksums"
          /\ \A k \in 1..Len(mresps) : ~FailedFetch(mresps[k])

\* The CPython finder had returned downloads with their checksums, the
\* PyPy finder had found downloads, the fetch of the PyPy checksum page
\* failed, and nothing was emitted.
C18_Witness ==
    /\ mpc = "aborted"
    /\ mresps[Len(mresps)].stage = "pypy_checksums"
    /\ mresps[Len(mresps)].resp.status = 500
    /\ \E d \in 1..Len(mdownloads) : mdownloads[d].sha256 # None
    /\ found # <<>>
    /\ emitted = <<>>

(* ---------------------------------------------------------------------- *)
(* C14: unresolved architecture or platform                                *)
(* ---------------------------------------------------------------------- *)
\* The greatest index below `limit` of a piece that is a key of the table,
\* 0 when there is none.
LastKeyBelow(pieces, keys, limit) ==
    LET hits == {i \in 1..Len(pieces) : i < limit /\ pieces[i] \in keys}
    IN  IF hits = {} THEN 0 ELSE CHOOSE i \in hits : \A j \in hits : j <= i

EnvKeys == {<<"gnu">>}
PlatformKeys == {<<"darwin">>, <<"windows">>, <<"linux">>}
ArchKeys == {<<"x86", "_64">>, <<"x86">>, <<"i686">>, <<"aarch64">>}

\* Where the environment, platform and architecture of the pieces are
\* found: each the last key of its table among the pieces left of the one
\* found before; Len + 1 for a missing environment, 0 for a missing
\* platform or architecture.
EnvAt(pieces) ==
    IF LastKeyBelow(pieces, EnvKeys, Len(pieces) + 1) = 0
    THEN Len(pieces) + 1
    ELSE LastKeyBelow(pieces, EnvKeys, Len(pieces) + 1)
PlatformAt(pieces) == LastKeyBelow(pieces, PlatformKeys, EnvAt(pieces))
ArchAt(pieces) == LastKeyBelow(pieces, ArchKeys, PlatformAt(pieces))

\* No piece resolves to a platform, or no remaining piece to an architecture.
Unresolved(text) ==
    PlatformAt(PiecesOf(text)) = 0 \/ ArchAt(PiecesOf(text)) = 0

\* Every download kept in the grouping.
Grouped ==
    Concat([v \in 1..Len(results) |->
               Concat([g \in 1..Len(results[v].platform_downloads) |->
                          results[v].platform_downloads[g].flavors])])

\* C14: for an asset whose triple has no piece that resolves to a platform
\* or no remaining piece that resolves to an architecture (such as
\* x86_64_v3-unknown-linux-gnu-lto and ppc64le-unknown-linux-gnu-noopt-full)
\* parse_triple returns invalid and parse_download_url no Download, and no
\* Download with an unresolved architecture or platform is in the grouping
\* or in the list returned.
C14_NoUnresolvedDownload ==
    /\ \A u \in 1..Len(ServedUrls) :
          Unresolved(ServedUrls[u].filename.triple) =>
              /\ parse_triple(ServedUrls[u].filename.triple) = NoTriple
              /\ parse_download_url(ServedUrls[u]) = NoDownload
              /\ \A i \in 1..Len(Grouped) : Grouped[i].url # ServedUrls[u]
              /\ \A i \in 1..Len(downloads) : downloads[i].url # ServedUrls[u]
    /\ \A i \in 1..Len(Grouped) :
          /\ Grouped[i].triple.arch \in {"x86_64", "x86", "aarch64"}
          /\ Grouped[i].triple.platform \in {"macos", "windows", "linux"}
          /\ ~Unresolved(Grouped[i].filename.triple)
    /\ \A i \in 1..Len(downloads) :
          /\ downloads[i].triple.arch \in {"x86_64", "x86", "aarch64"}
          /\ downloads[i].triple.platform \in {"macos", "windows", "linux"}
          /\ ~Unresolved(downloads[i].filename.triple)

\* The two assets with an unknown architecture were served next to valid
\* ones, and the walk has returned downloads.
C14_Witness ==
    /\ cpc = "done"
    /\ downloads # <<>>
    /\ \E u, w \in 1..Len(ServedUrls) :
          /\ ServedUrls[u].filename.triple
                 = Txt(<<"x86_64_v3", "unknown", "linux", "gnu", "lto">>)
          /\ ServedUrls[w].filename.triple
                 = Txt(<<"ppc64le", "unknown", "linux", "gnu", "noopt", "full">>)

(* ---------------------------------------------------------------------- *)
(* C15: the flavor of a triple                                             *)
(* ---------------------------------------------------------------------- *)
\* The tags in the order match_flavor tries them.
AllTags == FLAVOR_PREFERENCES \o HIDDEN_FLAVORS

\* The tag occurs in the alias-expanded text.
Occurs(tag, text) == Contains(SpecialGet(text), Lex(tag))

\* C15: the flavor of the triple parse_triple returns is a tag that occurs
\* in the alias-expanded text such that no tag before it in
\* FLAVOR_PREFERENCES + HIDDEN_FLAVORS occurs, wherever the tags stand in
\* the text, and is absent when no tag occurs; a text in which a tag of
\* FLAVOR_PREFERENCES occurs never gives a hidden flavor; ...-pgo+lto gives
\* pgo+lto and ...-shared-pgo gives shared-pgo.
C15_FlavorIsFirstListedTag ==
    (tpc = "parsed" /\ traw # <<>> /\ triple # NoTriple) =>
        /\ triple.flavor = None <=>
              \A k \in 1..Len(AllTags) : ~Occurs(AllTags[k], traw)
        /\ triple.flavor # None =>
              \E k \in 1..Len(AllTags) :
                  /\ AllTags[k] = triple.flavor
                  /\ Occurs(AllTags[k], traw)
                  /\ \A j \in 1..(k - 1) : ~Occurs(AllTags[j], traw)
        /\ (\E k \in 1..Len(FLAVOR_PREFERENCES) :
                Occurs(FLAVOR_PREFERENCES[k], traw))
              => triple.flavor \notin {"debug", "noopt", "install_only"}
        /\ traw = Txt(<<"aarch64", "unknown", "linux", "gnu", "pgo+lto">>)
              => triple.flavor = "pgo+lto"
        /\ traw = Txt(<<"x86_64", "pc", "windows", "msvc", "shared-pgo">>)
              => triple.flavor = "shared-pgo"

\* A text in which debug stands before lto has been parsed to flavor lto.
C15_Witness ==
    /\ tpc = "parsed"
    /\ traw = Txt(<<"aarch64", "apple", "darwin", "debug", "lto">>)
    /\ triple.flavor = "lto"

(* ---------------------------------------------------------------------- *)
(* C16: the order of the matches                                           *)
(* ---------------------------------------------------------------------- *)
\* The values of the alias tables, by piece.
ArchValue(piece) ==
    CASE piece = <<"x86", "_64">> -> "x86_64"
      [] piece = <<"x86">>        -> "x86"
      [] piece = <<"i686">>       -> "x86"
      [] piece = <<"aarch64">>    -> "aarch64"

PlatformValue(piece) ==
    CASE piece = <<"darwin">>  -> "macos"
      [] piece = <<"windows">> -> "windows"
      [] piece = <<"linux">>   -> "linux"

\* C16: parse_triple takes the environment from the last piece of the
\* environment table, the platform from the last piece of the platform
\* table left of it (of all pieces when there is no environment) and the
\* architecture from the last piece of the architecture table left of the
\* platform piece; it accepts a triple only if these exist in the order
\* architecture, platform, environment, and a platform or architecture
\* piece that stands only after the piece matched before is never used;
\* x86_64-pc-windows-msvc-shared-pgo gives {x86_64, windows, absent,
\* shared-pgo}.
C16_MatchesRightToLeft ==
    (tpc = "parsed" /\ traw # <<>>) =>
        LET p == PiecesOf(traw)
        IN  /\ (PlatformAt(p) = 0 \/ ArchAt(p) = 0) => triple = NoTriple
            /\ triple # NoTriple =>
                  /\ 1 <= ArchAt(p)
                  /\ ArchAt(p) < PlatformAt(p)
                  /\ PlatformAt(p) < EnvAt(p)
                  /\ triple.arch = ArchValue(p[ArchAt(p)])
                  /\ triple.platform = PlatformValue(p[PlatformAt(p)])
                  /\ triple.environment
                         = (IF EnvAt(p) <= Len(p) THEN "gnu" ELSE None)
            /\ traw = Txt(<<"x86_64", "pc", "windows", "msvc", "shared-pgo">>)
                  => triple = PlatformTriple("x86_64", "windows", None,
                                             "shared-pgo")

\* A text whose only platform piece stands after the environment piece has
\* been parsed and rejected.
C16_Witness ==
    /\ tpc = "parsed"
    /\ traw = Txt(<<"aarch64", "gnu", "linux">>)
    /\ triple = NoTriple

(* ---------------------------------------------------------------------- *)
(* C17: candidates of equal rank                                           *)
(* ---------------------------------------------------------------------- *)
\* C17: pick_best_download returns the first candidate of the input list
\* among those of the best rank: every candidate before it in the list
\* ranks strictly worse, so that a later candidate of equal rank never
\* replaces an earlier one.
C17_FirstOfEqualRank ==
    (ppc = "picked" /\ candidates # <<>>) =>
        \E i \in 1..Len(candidates) :
            /\ candidates[i] = best
            /\ \A j \in 1..(i - 1) : ~RanksNoWorse(candidates[j], best)
            /\ \A j \in (i + 1)..Len(candidates) :
                   RanksNoWorse(best, candidates[j])

\* Of the candidates [debug, absent, debug], all of one rank, the first was
\* returned.
C17_Witness ==
    /\ ppc = "picked"
    /\ candidates = CandidateList(<<"debug", None, "debug">>)
    /\ best = candidates[1]

(* ---------------------------------------------------------------------- *)
(* C19: batched                                                            *)
(* ---------------------------------------------------------------------- *)
\* The places of a url in the batches.
PlacesOf(url) ==
    {<<b, i>> \in (1..Len(kbatches)) \X (1..Len(korder)) :
        i <= Len(kbatches[b]) /\ kbatches[b][i] = url}

\* C19: for n >= 1 the tuples of batched, concatenated in order, are the
\* input; no tuple is empty, every tuple but the last has n items and the
\* last has between 1 and n; n < 1 raises ValueError, and then no fetch is
\* started.  So every distinct manifest url is in exactly one batch, and
\* one fetch task is started for it, in that batch.
C19_BatchedPartitions ==
    kpc # "idle" =>
        /\ kn < 1 => kpc = "failed" /\ kbatches = <<>> /\ tasks = <<>>
        /\ kn >= 1 =>
              /\ Concat(kbatches) = korder
              /\ \A b \in 1..Len(kbatches) :
                    /\ Len(kbatches[b]) >= 1
                    /\ Len(kbatches[b]) <= kn
                    /\ b < Len(kbatches) => Len(kbatches[b]) = kn
              /\ \A url \in ChecksumUrls(kdownloads) :
                    /\ Cardinality(PlacesOf(url)) = 1
                    /\ Cardinality({t \in 1..Len(tasks) : tasks[t].url = url})
                           = (IF \E pl \in PlacesOf(url) : pl[1] <= kbatch
                              THEN 1 ELSE 0)
              /\ \A t \in 1..Len(tasks) :
                    /\ tasks[t].url \in ChecksumUrls(kdownloads)
                    /\ \E pl \in PlacesOf(tasks[t].url) : pl[1] = tasks[t].batch

\* Three urls were batched with n = 2 into a batch of two and a batch of
\* one, and the call has completed.
C19_Witness ==
    /\ kpc = "done"
    /\ kn = 2
    /\ Len(korder) = 3
    /\ Len(kbatches) = 2
    /\ Len(kbatches[1]) = 2 /\ Len(kbatches[2]) = 1
    /\ Len(tasks) = 3

(* ---------------------------------------------------------------------- *)
(* C20: the rate-limit wait blocks the batch                               *)
(* ---------------------------------------------------------------------- *)
\* The manifest fetches that are inside their rate-limit wait.
Sleepers == {i \in 1..Len(tasks) : tasks[i].state = "sleeping"}

\* C20: while a fetch of a batch is inside its rate-limit wait, nothing
\* happens to any other fetch of the batch (none repeats its request, gets
\* its response, completes or is cancelled), no batch is left or started
\* and no checksum is set; the only step is the end of the wait, at which
\* the waiting fetch repeats its request, the whole wait having passed.
C20_WaitStallsBatch ==
    [][Sleepers # {} =>
          /\ Len(tasks') = Len(tasks)
          /\ \A j \in 1..Len(tasks) : j \notin Sleepers => tasks'[j] = tasks[j]
          /\ \A i \in Sleepers :
                tasks'[i] # tasks[i] =>
                    /\ tasks'[i].state = "awaiting"
                    /\ clock' >= clock + tasks[i].resp.retry_after
          /\ kpc' = kpc /\ kbatch' = kbatch /\ kdownloads' = kdownloads
      ]_vars

\* One fetch of a batch is inside its wait while the request of another
\* fetch of the same batch is in flight.
C20_Witness ==
    \E i, j \in 1..Len(tasks) :
        /\ tasks[i].batch = tasks[j].batch
        /\ tasks[i].state = "sleeping"
        /\ tasks[j].state = "awaiting"

(* ---------------------------------------------------------------------- *)
(* C21: retries without a cap                                              *)
(* ---------------------------------------------------------------------- *)
\* Every answer received so far reported the rate limit as exhausted and
\* carried neither retry-after nor x-ratelimit-reset.
OnlyHintlessAnswers ==
    /\ fpc # "idle"
    /\ \A i \in 1..Len(resps) : resps[i].resp \in HintlessResponses

\* C21: against a server that answers every request with status 403 or 429,
\* x-ratelimit-remaining "0" and neither retry-after nor x-ratelimit-reset,
\* fetch never returns and never fails: after any number of answers its
\* next request is in flight, each request issued 120 seconds after the
\* one before it.
C21_NoRetryCap ==
    OnlyHintlessAnswers =>
        /\ fpc = "awaiting"
        /\ Len(reqs) = Len(resps) + 1
        /\ \A i \in 1..Len(resps) : reqs[i + 1].at = reqs[i].at + 60 * 2

(* ---------------------------------------------------------------------- *)
(* C22: what fetch_indygreg_checksums writes                               *)
(* ---------------------------------------------------------------------- *)
\* The list after holds the Downloads of the list before, in the same
\* places, equal in every field other than sha256.
SameButSha256(before, after) ==
    /\ Len(after) = Len(before)
    /\ \A d \in 1..Len(before) :
          [after[d] EXCEPT !.sha256 = before[d].sha256] = before[d]

\* C22: from the call of fetch_indygreg_checksums on, no step adds, removes
\* or reorders Downloads or changes a field of a Download other than
\* sha256; a step changes a sha256 only when it ends the call with the
\* fetches of every batch completed and none failed; and the step at which
\* a failed manifest fetch aborts the call leaves every Download, its
\* sha256 included, as it was passed in.
C22_OnlySha256AfterAllBatches ==
    [][kpc = "batch" =>
          /\ SameButSha256(kdownloads, kdownloads')
          /\ kdownloads' # kdownloads =>
                /\ kpc' = "done"
                /\ kbatch = Len(kbatches)
                /\ Len(tasks) = Len(korder)
                /\ \A i \in 1..Len(tasks) : tasks[i].state \in {"done", "notfound"}
          /\ kpc' = "failed" => kdownloads' = kdownloads
      ]_vars

\* The call was aborted by a failed manifest fetch after the manifest that
\* lists one of the Downloads had been fetched successfully in an earlier
\* batch, and no Download has a checksum.
C22_Witness ==
    /\ kpc = "failed"
    /\ \E i, j \in 1..Len(tasks) :
          /\ tasks[i].batch < tasks[j].batch
          /\ tasks[j].state = "failed"
          /\ tasks[i].state = "done"
          /\ \E d \in 1..Len(kdownloads) :
                /\ ChecksumUrlOf(kdownloads[d]) = tasks[i].url
                /\ \E a \in 1..Len(tasks[i].resp.body) :
                      tasks[i].resp.body[a][2] = kdownloads[d].filename
    /\ \A d \in 1..Len(kdownloads) : kdownloads[d].sha256 = None

====
